---- MODULE Spec2Model ----
(***************************************************************************)
(* iframe-postmessage: the host (BridgeParent / ParentAPIImplementation)   *)
(* and child (BridgeModel / ChildAPIImplementation) handshake state        *)
(* machines, the instance registry, the wire validator and the session     *)
(* APIs, as a state machine over windows, message queues, event listeners  *)
(* and timers.                                                             *)
(*                                                                         *)
(* Every handler of the source is an operator from a world record (all    *)
(* mutable state) to a world record; an action runs one whole task of the  *)
(* event loop (a constructor call, a timer callback, the dispatch of one   *)
(* message event to every listener of a window) and commits the result.    *)
(***************************************************************************)
EXTENDS Integers, Sequences, FiniteSets, TLC

VARIABLES
    now,          \* the clock, in ms
    timers,       \* scheduled timers, in arming order
    hs,           \* per host session: BridgeParent.sendHandshake closure state
    api,          \* per host session: ParentAPIImplementation state
    frames,       \* per host session: the iframe element is attached to the DOM
    reg,          \* activeInstances, per realm (module instance)
    inbox,        \* per window: posted messages not yet dispatched
    lis,          \* per window: registered 'message' listeners, in order
    midc,         \* messageIdCounter of the host realm
    cm,           \* the BridgeModel instance of the child window
    capi,         \* the ChildAPIImplementation of the child window
    locks,        \* activeBridgeModels
    obs,          \* what the outside observed (promise outcomes, calls, sends)
    last          \* the task that ran last and its input

vars == <<now, timers, hs, api, frames, reg, inbox, lis, midc, cm, capi, locks, obs, last>>

----------------------------------------------------------------------------
(* Program constants *)

MESSAGE_TYPE == "application/x-iframe-postmessage-v1+json"
MAX_HANDSHAKE_ATTEMPTS == 10
HANDSHAKE_INTERVAL_MS == 500
HANDSHAKE_TIMEOUT_MS == 10000
MESSAGE_QUEUE_REPLAY_DELAY_MS == 50
FALLBACK_DELAY_MS == 1000

(* Bounds of the model *)

MaxTime == 7000       \* the clock stops here
MaxLoads == 2         \* 'load' events fired per iframe
MaxEnv == 2           \* messages the environment dispatches per behaviour
MaxEnvHost == 1       \* the same, where only strangers send
MaxTimeMulti == 1500  \* the clock stops here where two host sessions run
MaxOps == 2           \* session API calls (get / call / on / destroy / emit) per behaviour

MaxTimeChild == 10000 \* the clock stops here where only the child runs
MaxTimeE2E == 6000    \* the clock stops here where host and child run together
MaxLoadsE2E == 1      \* 'load' events of the frame where host and child run together
MaxEnvServe == 2      \* messages dispatched on the window of the established child
MaxEnvChild == 3      \* messages the environment dispatches on the child's window
MaxGets == 4          \* get() calls per behaviour where only get() is called
MaxTimeSession == 1500 \* the clock stops here where host and child use their session APIs

\* The grids on which the clock advances between timer deadlines.
TICK_MS == HANDSHAKE_INTERVAL_MS \div 2
TICK_CHILD_MS == HANDSHAKE_TIMEOUT_MS \div 4

----------------------------------------------------------------------------
(* The universe: windows, origins, sessions *)

HostWin == "H"        \* the host context (window of BridgeParent)
WinA == "WA"          \* contentWindow of session A's iframe; also the child's window
WinB == "WB"          \* contentWindow of session B's iframe
WinX == "X"           \* any other context (sibling frame, popup)
NoWin == "null"       \* a null window reference / null event.source

Windows == {HostWin, WinA, WinB, WinX}
Sessions == {"A", "B"}
ChildRealm == "WA"
Realms == {HostWin, ChildRealm}

OriginH == "https://host.example"
OriginA == "https://a.example"
OriginB == "https://b.example"
OriginX == "https://x.example"
NoOrigin == "null"

UrlA == "https://a.example/app"
UrlB == "https://b.example/app"
Urls == {UrlA, UrlB}

FrameWin(s) == IF s = "A" THEN WinA ELSE WinB

\* window.parent of a window (a top-level window is its own parent).
ParentOf(win) == IF win \in {WinA, WinB} THEN HostWin ELSE win

Min(a, b) == IF a <= b THEN a ELSE b

\* resolveOrigin(url): the origin of a configured URL.
resolveOrigin(url) ==
    CASE url = UrlA -> OriginA
      [] url = UrlB -> OriginB
      [] OTHER -> OriginH

----------------------------------------------------------------------------
(* Messages.  event.data is a record; "none" stands for an absent field.   *)
(* shape is what typeof / truthiness see: "object", "null" (no data) or    *)
(* "scalar" (a string, a number); hasBridge is ('bridge' in data).         *)

None == "none"
Keys == {"greet", "doWork", "value", "boom"}
EmptyModel == [k \in Keys |-> None]

\* Names every plain object inherits from Object.prototype (two of them).
ProtoNames == {"toString", "__defineGetter__"}

\* A name that is truthy: present and not the empty string.
Truthy(name) == name # None /\ name # ""

BridgeMessage(bridge, type, property, data, uid, evName, evData, value, model) ==
    [shape |-> "object", hasBridge |-> TRUE, bridge |-> bridge, type |-> type,
     property |-> property, data |-> data, uid |-> uid,
     evName |-> evName, evData |-> evData, value |-> value, model |-> model]

HandshakeMsg(model) ==
    BridgeMessage("handshake", MESSAGE_TYPE, None, None, 0, None, None, None, model)
HandshakeReplyMsg ==
    BridgeMessage("handshake-reply", MESSAGE_TYPE, None, None, 0, None, None, None, EmptyModel)
CallMsg(property, data) ==
    BridgeMessage("call", MESSAGE_TYPE, property, data, 0, None, None, None, EmptyModel)
RequestMsg(property, uid) ==
    BridgeMessage("request", MESSAGE_TYPE, property, None, uid, None, None, None, EmptyModel)
ReplyMsg(uid, value) ==
    BridgeMessage("reply", MESSAGE_TYPE, None, None, uid, None, None, value, EmptyModel)
EmitMsg(name, data) ==
    BridgeMessage("emit", MESSAGE_TYPE, None, None, 0, name, data, None, EmptyModel)

\* A MessageEvent: the sender's window, the sender's origin, the data.
MessageEvent(source, origin, data) == [source |-> source, origin |-> origin, data |-> data]

validTypes == {"handshake", "handshake-reply", "call", "emit", "reply", "request"}

\* A validator that does not compare origins.
sanitizeMessage_AnyOrigin(e, allowedOrigin) ==
    IF e.data.shape = "null" THEN FALSE
    ELSE IF e.data.shape # "object" \/ ~e.data.hasBridge THEN FALSE
    ELSE IF e.data.type # MESSAGE_TYPE THEN FALSE
    ELSE IF e.data.bridge \notin validTypes THEN FALSE
    ELSE TRUE

\* sanitizeMessage(message, allowedOrigin); allowedOrigin = NoOrigin is `false`.
sanitizeMessage(e, allowedOrigin) ==
    IF allowedOrigin # NoOrigin /\ e.origin # allowedOrigin THEN FALSE
    ELSE IF e.data.shape = "null" THEN FALSE
    ELSE IF e.data.shape # "object" \/ ~e.data.hasBridge THEN FALSE
    ELSE IF e.data.type # MESSAGE_TYPE THEN FALSE
    ELSE IF e.data.bridge \notin validTypes THEN FALSE
    ELSE TRUE

----------------------------------------------------------------------------
(* The world: all mutable state as one record, so that a handler is an     *)
(* operator from a world to a world and a task can run several of them.    *)
(* stop is event.stopImmediatePropagation() of the event being dispatched. *)

World ==
    [now |-> now, timers |-> timers, hs |-> hs, api |-> api, frames |-> frames,
     reg |-> reg, inbox |-> inbox, lis |-> lis, midc |-> midc, cm |-> cm,
     capi |-> capi, locks |-> locks, obs |-> obs, stop |-> FALSE]

\* The child listens while the host's handshake still has attempts to make.
InTime(w) ==
    /\ w.cm.promise = "pending"
    /\ w.hs["A"].promise = "pending"
    /\ w.hs["A"].attempt < MAX_HANDSHAKE_ATTEMPTS

\* The task's result becomes the state; obs.inTimeAt and obs.late remember
\* when InTime first held, and that the clock advanced past a message still in flight.
Commit(w, task) ==
    /\ now' = w.now
    /\ timers' = w.timers
    /\ hs' = w.hs
    /\ api' = w.api
    /\ frames' = w.frames
    /\ reg' = w.reg
    /\ inbox' = w.inbox
    /\ lis' = w.lis
    /\ midc' = w.midc
    /\ cm' = w.cm
    /\ capi' = w.capi
    /\ locks' = w.locks
    /\ obs' = [w.obs EXCEPT !.inTimeAt = IF @ < 0 /\ InTime(w) THEN w.now ELSE @,
                            !.late = @ \/ (w.now > now /\ \E win \in Windows : inbox[win] # <<>>)]
    /\ last' = task

\* A task descriptor: which task ran, for whom, with which message event.
NoEvent == MessageEvent(NoWin, NoOrigin, [HandshakeReplyMsg EXCEPT !.shape = "null"])
Task(kind, who, e) == [kind |-> kind, who |-> who, e |-> e]

SeqRemove(q, x) == SelectSeq(q, LAMBDA y : y # x)
InSeq(q, x) == \E i \in 1..Len(q) : q[i] = x

\* frame.contentWindow of session s's iframe: null once the iframe is detached.
contentWindow(w, s) == IF w.frames[s] THEN FrameWin(s) ELSE NoWin

\* The origin of the document a window shows: an iframe shows its src.
WinOrigin(w, win) ==
    CASE win = HostWin -> OriginH
      [] win = WinA -> IF w.hs["A"].url # None THEN resolveOrigin(w.hs["A"].url) ELSE OriginA
      [] win = WinB -> IF w.hs["B"].url # None THEN resolveOrigin(w.hs["B"].url) ELSE OriginB
      [] OTHER -> OriginX

\* Whether a window reference still has a browsing context to deliver to.
Alive(w, win) ==
    CASE win = WinA -> w.frames["A"]
      [] win = WinB -> w.frames["B"]
      [] win = NoWin -> FALSE
      [] OTHER -> TRUE

\* target.postMessage(data, targetOrigin) called from window src: the browser
\* queues a MessageEvent for target iff target's origin is targetOrigin.
postMessage(w, target, src, data, targetOrigin) ==
    IF ~Alive(w, target) \/ WinOrigin(w, target) # targetOrigin THEN w
    ELSE [w EXCEPT !.inbox[target] = Append(@, MessageEvent(src, WinOrigin(w, src), data))]

\* Listener identities.
Listener(kind, sess, uid) == [kind |-> kind, sess |-> sess, uid |-> uid]
addEventListener(w, win, l) ==
    IF InSeq(w.lis[win], l) THEN w ELSE [w EXCEPT !.lis[win] = Append(@, l)]
removeEventListener(w, win, l) == [w EXCEPT !.lis[win] = SeqRemove(@, l)]

\* Timers.  setTimeout / setInterval append to the realm's timer list; the
\* handle is a per-owner sequence number (0 is `undefined`).
setTimer(w, realm, owner, id, kind, delay) ==
    [w EXCEPT !.timers = Append(@, [realm |-> realm, owner |-> owner, id |-> id,
                                    kind |-> kind, due |-> w.now + delay])]
clearTimer(w, owner, id) ==
    [w EXCEPT !.timers = SelectSeq(@, LAMBDA t : ~(t.owner = owner /\ t.id = id))]

----------------------------------------------------------------------------
(* registry.ts *)

NoInstance == [present |-> FALSE, childOrigin |-> NoOrigin, parentOrigin |-> NoOrigin, frame |-> NoWin]
InstanceInfo(childOrigin, parentOrigin, frame) ==
    [present |-> TRUE, childOrigin |-> childOrigin, parentOrigin |-> parentOrigin, frame |-> frame]

\* frame.parentNode of session s's iframe: the element is in its container,
\* whether the container is in the document (frames) or not yet (detached).
parentNode(w, s) == w.frames[s] \/ w.hs[s].detached

\* frame.parentNode.removeChild(frame) for the iframe element of session f.
removeFrame(w, f) ==
    IF f \in Sessions THEN [w EXCEPT !.frames[f] = FALSE, !.hs[f].detached = FALSE] ELSE w

\* A registerInstance that leaves the iframe of the entry it replaces.
registerInstance_NoEvict(w, realm, childWindow, info) ==
    [w EXCEPT !.reg[realm][childWindow] = info]

registerInstance(w, realm, childWindow, info) ==
    LET existingInstance == w.reg[realm][childWindow]
        w1 == IF existingInstance.present /\ existingInstance.frame \in Sessions
                 /\ parentNode(w, existingInstance.frame)
              THEN removeFrame(w, existingInstance.frame)
              ELSE w
    IN [w1 EXCEPT !.reg[realm][childWindow] = info]

unregisterInstance(w, realm, childWindow) ==
    IF w.reg[realm][childWindow].present
    THEN [w EXCEPT !.reg[realm][childWindow] = NoInstance]
    ELSE w

\* A frame handle whose isConnected cannot be read (the read throws).
BrokenFrame == "broken"

\* A sweep that keeps the entries whose frame cannot be probed.
cleanupOrphanedInstances_NoCatch(w, realm) ==
    [w EXCEPT !.reg[realm] =
        [win \in DOMAIN @ |->
            IF @[win].present /\ @[win].frame \in Sessions /\ ~w.frames[@[win].frame]
            THEN NoInstance ELSE @[win]]]

\* cleanupOrphanedInstances: every entry whose frame is not null and is not
\* connected, or whose probe throws, is unregistered.
cleanupOrphanedInstances(w, realm) ==
    [w EXCEPT !.reg[realm] =
        [win \in DOMAIN @ |->
            IF /\ @[win].present
               /\ \/ @[win].frame = BrokenFrame
                  \/ @[win].frame \in Sessions /\ ~w.frames[@[win].frame]
            THEN NoInstance ELSE @[win]]]

getInstanceInfo(w, realm, e) ==
    IF e.source = NoWin THEN NoInstance ELSE w.reg[realm][e.source]

----------------------------------------------------------------------------
(* parent.ts: BridgeParent *)

NoSession ==
    [url |-> None, cfgOrigin |-> NoOrigin, childOrigin |-> NoOrigin, child |-> NoWin,
     model |-> EmptyModel, attempt |-> 0, responseInterval |-> 0, handshakeTimeout |-> 0,
     isResolved |-> FALSE, promise |-> "none", loads |-> 0, tseq |-> 0, detached |-> FALSE]

NoApi ==
    [exists |-> FALSE, child |-> NoWin, childOrigin |-> NoOrigin, events |-> <<>>,
     gets |-> {}, destroyed |-> FALSE]

\* resolve(...) / reject(...) of a construction promise: the first call settles it.
settle(w, s, outcome) ==
    IF w.hs[s].promise = "pending" THEN [w EXCEPT !.hs[s].promise = outcome] ELSE w

\* new ParentAPIImplementation({parent, frame, child, childOrigin})
newParentAPI(w, s) ==
    addEventListener(
        [w EXCEPT !.api[s] = [NoApi EXCEPT !.exists = TRUE, !.child = w.hs[s].child,
                                            !.childOrigin = w.hs[s].childOrigin]],
        HostWin, Listener("api", s, 0))

\* sendHandshake: cleanup()
cleanup(w, s) ==
    IF w.hs[s].isResolved THEN w
    ELSE LET w1 == [w EXCEPT !.hs[s].isResolved = TRUE]
             w2 == clearTimer(w1, s, w1.hs[s].responseInterval)
             w3 == clearTimer(w2, s, w2.hs[s].handshakeTimeout)
             w4 == removeEventListener(w3, HostWin, Listener("reply", s, 0))
             w5 == unregisterInstance(w4, HostWin, w4.hs[s].child)
         IN IF parentNode(w5, s) THEN removeFrame(w5, s) ELSE w5

\* sendHandshake: the sender test of reply
replyFromTrusted(w, s, e) ==
    LET isFromOurChild == e.source = w.hs[s].child \/ e.source = contentWindow(w, s)
        instanceInfo == getInstanceInfo(w, HostWin, e)
        isFromRegisteredChild ==
            instanceInfo.present /\ instanceInfo.childOrigin = w.hs[s].childOrigin
    IN isFromOurChild \/ isFromRegisteredChild

\* A success branch that leaves the handshake open: isResolved stays false and
\* the reply listener stays on the window.
replyAccept_StaysOpen(w, s, e) ==
    LET w2 == clearTimer(w, s, w.hs[s].responseInterval)
        w3 == clearTimer(w2, s, w2.hs[s].handshakeTimeout)
        w5 == [w3 EXCEPT !.hs[s].childOrigin = e.origin]
        w6 == IF w5.reg[HostWin][w5.hs[s].child].present
              THEN unregisterInstance(w5, HostWin, w5.hs[s].child)
              ELSE w5
        w7 == registerInstance(w6, HostWin, w6.hs[s].child,
                               InstanceInfo(w6.hs[s].childOrigin, OriginH, s))
    IN settle(newParentAPI(w7, s), s, "resolved")

\* sendHandshake: the success branch of reply
replyAccept(w, s, e) ==
    LET w1 == [w EXCEPT !.hs[s].isResolved = TRUE]
        w2 == clearTimer(w1, s, w1.hs[s].responseInterval)
        w3 == clearTimer(w2, s, w2.hs[s].handshakeTimeout)
        w4 == removeEventListener(w3, HostWin, Listener("reply", s, 0))
        w5 == [w4 EXCEPT !.hs[s].childOrigin = e.origin]
        w6 == IF w5.reg[HostWin][w5.hs[s].child].present
              THEN unregisterInstance(w5, HostWin, w5.hs[s].child)
              ELSE w5
        w7 == registerInstance(w6, HostWin, w6.hs[s].child,
                               InstanceInfo(w6.hs[s].childOrigin, OriginH, s))
    IN settle(newParentAPI(w7, s), s, "resolved")

\* A reply that drops a message of a wrong kind instead of failing the handshake.
reply_DropsWrongKind(w, s, e) ==
    IF ~sanitizeMessage(e, NoOrigin) THEN w
    ELSE IF ~replyFromTrusted(w, s, e) THEN w
    ELSE IF e.data.bridge = "handshake-reply"
         THEN IF w.hs[s].isResolved THEN w ELSE replyAccept(w, s, e)
         ELSE w

\* A reply that takes no handshake-reply once the last attempt was made.
reply_ClosedAfterLastAttempt(w, s, e) ==
    IF ~sanitizeMessage(e, NoOrigin) THEN w
    ELSE IF ~replyFromTrusted(w, s, e) THEN w
    ELSE IF e.data.bridge = "handshake-reply"
         THEN IF w.hs[s].isResolved \/ w.hs[s].attempt >= MAX_HANDSHAKE_ATTEMPTS
              THEN w ELSE replyAccept(w, s, e)
         ELSE settle(cleanup(w, s), s, "Failed handshake")

\* sendHandshake: reply, the 'message' listener of the handshake
reply(w, s, e) ==
    IF ~sanitizeMessage(e, NoOrigin) THEN w
    ELSE IF ~replyFromTrusted(w, s, e) THEN w
    ELSE IF e.data.bridge = "handshake-reply"
         THEN IF w.hs[s].isResolved THEN w ELSE replyAccept(w, s, e)
         ELSE settle(cleanup(w, s), s, "Failed handshake")

\* sendHandshake: the callback of handshakeTimeout
handshakeTimeoutFired(w, s) ==
    IF ~w.hs[s].isResolved
    THEN settle(cleanup(w, s), s, "Handshake timeout after max attempts")
    ELSE w

\* sendHandshake: the branch of doSend taken once the attempts are used up
doSendExhausted(w, s) ==
    LET w1 == IF w.hs[s].responseInterval # 0
              THEN [clearTimer(w, s, w.hs[s].responseInterval)
                        EXCEPT !.hs[s].responseInterval = 0]
              ELSE w
    IN IF w1.hs[s].handshakeTimeout = 0 /\ ~w1.hs[s].isResolved
       THEN LET id == w1.hs[s].tseq + 1
            IN setTimer([w1 EXCEPT !.hs[s].tseq = id, !.hs[s].handshakeTimeout = id],
                        HostWin, s, id, "handshakeTimeout", HANDSHAKE_INTERVAL_MS)
       ELSE w1

\* sendHandshake: the end of doSend, after an offer was posted
doSendAfterPost(w, s) ==
    IF w.hs[s].attempt >= MAX_HANDSHAKE_ATTEMPTS /\ w.hs[s].responseInterval # 0
    THEN [clearTimer(w, s, w.hs[s].responseInterval) EXCEPT !.hs[s].responseInterval = 0]
    ELSE w

\* A doSend that does not look at the number of attempts made.
doSend_NoCeiling(w, s) ==
    LET w1 == [w EXCEPT !.hs[s].attempt = @ + 1]
        childWindow == contentWindow(w1, s)
    IN IF childWindow = NoWin THEN w1
       ELSE LET w2 == postMessage(w1, childWindow, HostWin,
                                  HandshakeMsg(w1.hs[s].model), w1.hs[s].cfgOrigin)
                w3 == [w2 EXCEPT !.obs.offers[s] = @ + 1]
            IN doSendAfterPost(w3, s)

\* sendHandshake: doSend
doSend(w, s) ==
    IF w.hs[s].attempt >= MAX_HANDSHAKE_ATTEMPTS THEN doSendExhausted(w, s)
    ELSE LET w1 == [w EXCEPT !.hs[s].attempt = @ + 1]
             childWindow == contentWindow(w1, s)
         IN IF childWindow = NoWin THEN w1
            ELSE LET w2 == postMessage(w1, childWindow, HostWin,
                                       HandshakeMsg(w1.hs[s].model), w1.hs[s].cfgOrigin)
                     w3 == [w2 EXCEPT !.obs.offers[s] = @ + 1]
                 IN doSendAfterPost(w3, s)

\* sendHandshake: loaded
loaded(w, s) ==
    LET w1 == doSend(w, s)
        id == w1.hs[s].tseq + 1
    IN setTimer([w1 EXCEPT !.hs[s].tseq = id, !.hs[s].responseInterval = id],
                HostWin, s, id, "responseInterval", HANDSHAKE_INTERVAL_MS)

\* A fallback that starts the handshakes whatever the state.
fallbackFired_Always(w, s) == loaded(w, s)

\* sendHandshake: the callback of the 1000 ms fallback timer
fallbackFired(w, s) ==
    IF w.hs[s].responseInterval = 0 /\ ~w.hs[s].isResolved THEN loaded(w, s) ELSE w

\* new BridgeParent(config): the constructor and the synchronous part of
\* sendHandshake. The iframe is appended to config.container; it has a
\* contentWindow only if the container is in the document.
newBridgeParentIn(w, s, url, model, inDocument) ==
    LET w1 == [w EXCEPT !.frames[s] = inDocument,
                        !.hs[s] = [NoSession EXCEPT !.url = url, !.model = model,
                                       !.child = IF inDocument THEN FrameWin(s) ELSE NoWin,
                                       !.detached = ~inDocument,
                                       !.childOrigin = resolveOrigin(url),
                                       !.cfgOrigin = resolveOrigin(url),
                                       !.promise = "pending", !.tseq = 1]]
        w2 == addEventListener(w1, HostWin, Listener("reply", s, 0))
    IN setTimer(w2, HostWin, s, 1, "fallback", FALLBACK_DELAY_MS)

\* new BridgeParent(config) with a container that is in the document
newBridgeParent(w, s, url, model) == newBridgeParentIn(w, s, url, model, TRUE)

----------------------------------------------------------------------------
(* parent.ts: ParentAPIImplementation *)

\* The sender test shared by handleMessage and get's transact.
apiFromOurChild(w, s, e) == e.source = w.api[s].child \/ e.source = contentWindow(w, s)

\* this.events[eventName].forEach(callback => callback(data)): each call is observed.
RECURSIVE invokeCallbacks(_, _, _, _)
invokeCallbacks(w, s, e, i) ==
    IF i > Len(w.api[s].events) THEN w
    ELSE LET h == w.api[s].events[i]
             w1 == IF h.name = e.data.evName
                   THEN [w EXCEPT !.obs.invoked[s] = Append(@, <<h.id, e.data.evData>>)]
                   ELSE w
         IN invokeCallbacks(w1, s, e, i + 1)

\* (eventName in this.events) is also true of a name this.events inherits;
\* what it inherits has no forEach, and the listener throws a TypeError.
handleMessage(w, s, e) ==
    IF ~sanitizeMessage(e, w.api[s].childOrigin) THEN w
    ELSE IF ~apiFromOurChild(w, s, e) THEN w
    ELSE IF e.data.bridge = "emit" /\ Truthy(e.data.evName)
         THEN IF e.data.evName \in ProtoNames
              THEN [w EXCEPT !.obs.raised = @ + 1]
              ELSE invokeCallbacks(w, s, e, 1)
         ELSE w

\* A transact listener that takes any reply of the child for its own.
transact_AnyUid(w, s, uid, e) ==
    IF ~sanitizeMessage(e, w.api[s].childOrigin) THEN w
    ELSE IF ~apiFromOurChild(w, s, e) THEN w
    ELSE IF e.data.bridge = "reply"
         THEN LET w1 == removeEventListener(w, HostWin, Listener("transact", s, uid))
              IN [w1 EXCEPT !.api[s].gets = @ \ {uid},
                            !.obs.resolved[s] = Append(@, <<uid, e.data.value>>)]
         ELSE w

\* get(): the transact listener of the request with correlation id uid
transact(w, s, uid, e) ==
    IF ~sanitizeMessage(e, w.api[s].childOrigin) THEN w
    ELSE IF ~apiFromOurChild(w, s, e) THEN w
    ELSE IF e.data.uid = uid /\ e.data.bridge = "reply"
         THEN LET w1 == removeEventListener(w, HostWin, Listener("transact", s, uid))
              IN [w1 EXCEPT !.api[s].gets = @ \ {uid},
                            !.obs.resolved[s] = Append(@, <<uid, e.data.value>>)]
         ELSE w

\* A generator whose counter does not move.
generateMessageId_Stuck(w) == w

generateMessageId(w) == [w EXCEPT !.midc = @ + 1]

get(w, s, property) ==
    LET w1 == generateMessageId(w)
        uid == w1.midc
        w2 == addEventListener(w1, HostWin, Listener("transact", s, uid))
        w3 == [w2 EXCEPT !.api[s].gets = @ \cup {uid}]
    IN postMessage(w3, w3.api[s].child, HostWin, RequestMsg(property, uid), w3.api[s].childOrigin)

call(w, s, property, data) ==
    postMessage(w, w.api[s].child, HostWin, CallMsg(property, data), w.api[s].childOrigin)

\* this.events[eventName] of an inherited name is truthy and has no push: on()
\* throws a TypeError.
on(w, s, eventName) ==
    IF eventName \in ProtoNames
    THEN [w EXCEPT !.obs.raised = @ + 1]
    ELSE [w EXCEPT !.api[s].events = Append(@, [name |-> eventName, id |-> Len(@) + 1])]

\* A destroy that leaves the session's message listener on the window.
destroy_KeepsListener(w, s) ==
    LET w1 == unregisterInstance(w, HostWin, w.api[s].child)
        w3 == IF parentNode(w1, s) THEN removeFrame(w1, s) ELSE w1
    IN [w3 EXCEPT !.api[s].destroyed = TRUE]

destroy(w, s) ==
    LET w1 == unregisterInstance(w, HostWin, w.api[s].child)
        w2 == removeEventListener(w1, HostWin, Listener("api", s, 0))
        w3 == IF parentNode(w2, s) THEN removeFrame(w2, s) ELSE w2
    IN [w3 EXCEPT !.api[s].destroyed = TRUE]

----------------------------------------------------------------------------
(* Dispatch of one MessageEvent on the host window: every listener that    *)
(* was registered when the dispatch began, and is still registered when    *)
(* its turn comes, runs, in registration order.                            *)

hostListener(w, l, e) ==
    CASE l.kind = "reply" -> reply(w, l.sess, e)
      [] l.kind = "api" -> handleMessage(w, l.sess, e)
      [] l.kind = "transact" -> transact(w, l.sess, l.uid, e)
      [] OTHER -> w

RECURSIVE dispatchHost(_, _, _, _)
dispatchHost(w, snapshot, i, e) ==
    IF i > Len(snapshot) THEN w
    ELSE LET l == snapshot[i]
             w1 == IF InSeq(w.lis[HostWin], l) THEN hostListener(w, l, e) ELSE w
         IN dispatchHost(w1, snapshot, i + 1, e)

----------------------------------------------------------------------------
(* child.ts: ChildAPIImplementation.  A model entry is absent (None), a    *)
(* callable (Fn) or a datum; a call of a callable is observed in obs.calls *)
(* and returns Returned.                                                   *)

Fn == "function"
FnThrows == "function that throws"
Returned == "returned"
ChildWin == WinA

\* model[property]: an own entry, else what the model object inherits from
\* Object.prototype (toString returns; __defineGetter__ throws a TypeError when
\* its second argument is no function), else undefined.
Lookup(model, property) ==
    IF property \in Keys /\ model[property] # None THEN model[property]
    ELSE IF property = "__defineGetter__" THEN FnThrows
    ELSE IF property \in ProtoNames THEN Fn
    ELSE None
IsFunction(v) == v \in {Fn, FnThrows}

\* A model function is called with data: the call is observed; the exception of
\* a function that throws leaves the listener (obs.raised).
invoke(w, property, data) ==
    LET w1 == [w EXCEPT !.obs.calls = Append(@, <<property, data>>)]
    IN IF Lookup(w.cm.model, property) = FnThrows
       THEN [w1 EXCEPT !.obs.raised = @ + 1]
       ELSE w1

NoChildApi == [exists |-> FALSE, parent |-> NoWin, parentOrigin |-> NoOrigin]

\* resolveValue(model, property): the world after the call of a function entry,
\* and the value the promise resolves with.
resolveValueWorld(w, property) ==
    IF IsFunction(Lookup(w.cm.model, property)) THEN invoke(w, property, None) ELSE w
resolveValue(w, property) ==
    IF IsFunction(Lookup(w.cm.model, property)) THEN Returned
    ELSE Lookup(w.cm.model, property)

\* handleMessage: the call branch
childHandleCall(w, e) ==
    IF Truthy(e.data.property) /\ IsFunction(Lookup(w.cm.model, e.data.property))
    THEN invoke(w, e.data.property, e.data.data)
    ELSE w

\* handleMessage: the request branch; nothing is sent when resolveValue threw
childHandleRequest(w, e) ==
    LET property == e.data.property
        value == resolveValue(w, property)
        w1 == resolveValueWorld(w, property)
    IN IF w1.obs.raised # w.obs.raised THEN w1
       ELSE IF e.source # NoWin
       THEN [postMessage(w1, e.source, ChildWin, ReplyMsg(e.data.uid, value), e.origin)
                 EXCEPT !.obs.replies = Append(@, [to |-> e.source, origin |-> e.origin,
                                                   uid |-> e.data.uid, value |-> value])]
       ELSE w1

childHandleMessage(w, e) ==
    IF ~sanitizeMessage(e, w.capi.parentOrigin) THEN w
    ELSE LET w1 == IF e.data.bridge = "call" THEN childHandleCall(w, e) ELSE w
         IN IF e.data.bridge = "request" /\ e.data.uid # 0 /\ Truthy(e.data.property)
            THEN childHandleRequest(w1, e)
            ELSE w1

\* An emit addressed to the child's own origin.
emit_ToOwnOrigin(w, name, data) ==
    [postMessage(w, w.capi.parent, ChildWin, EmitMsg(name, data), WinOrigin(w, ChildWin))
        EXCEPT !.obs.emits = @ + 1]

emit(w, name, data) ==
    [postMessage(w, w.capi.parent, ChildWin, EmitMsg(name, data), w.capi.parentOrigin)
        EXCEPT !.obs.emits = @ + 1]

\* new ChildAPIImplementation({model, parent, parentOrigin, child})
newChildAPI(w) ==
    addEventListener(
        [w EXCEPT !.capi = [exists |-> TRUE, parent |-> w.cm.parent,
                            parentOrigin |-> w.cm.parentOrigin]],
        ChildWin, Listener("capi", "child", 0))

----------------------------------------------------------------------------
(* child.ts: BridgeModel *)

NoModel ==
    [exists |-> FALSE, model |-> EmptyModel, parent |-> NoWin, parentOrigin |-> NoOrigin,
     messageQueue |-> <<>>, handshakeComplete |-> FALSE, isResolved |-> FALSE,
     promise |-> "none"]

QueuedMessage(e) == [message |-> e.data, origin |-> e.origin, source |-> e.source]

\* A capturing listener that queues every call and request, duplicates too.
messageListener_NoDedup(w, e) ==
    IF e.data.shape # "object" \/ ~e.data.hasBridge THEN w
    ELSE IF w.cm.handshakeComplete THEN w
    ELSE IF e.data.bridge = "handshake" THEN w
    ELSE LET isFromParent == w.cm.parentOrigin = NoOrigin \/ e.origin = w.cm.parentOrigin
             isFromParentWindow == e.source = w.cm.parent \/ e.source = ParentOf(ChildWin)
         IN IF isFromParent /\ isFromParentWindow /\ e.data.bridge \in {"call", "request"}
            THEN [w EXCEPT !.cm.messageQueue = Append(@, QueuedMessage(e)), !.stop = TRUE]
            ELSE w

\* A capturing listener that queues and lets the event go on to the other listeners.
messageListener_NoStop(w, e) ==
    IF e.data.shape # "object" \/ ~e.data.hasBridge THEN w
    ELSE IF w.cm.handshakeComplete THEN w
    ELSE IF e.data.bridge = "handshake" THEN w
    ELSE LET isFromParent == w.cm.parentOrigin = NoOrigin \/ e.origin = w.cm.parentOrigin
             isFromParentWindow == e.source = w.cm.parent \/ e.source = ParentOf(ChildWin)
             isDuplicate == \E i \in 1..Len(w.cm.messageQueue) :
                                /\ w.cm.messageQueue[i].message.bridge = e.data.bridge
                                /\ w.cm.messageQueue[i].message.property = e.data.property
                                /\ w.cm.messageQueue[i].message.uid = e.data.uid
         IN IF isFromParent /\ isFromParentWindow /\ e.data.bridge \in {"call", "request"}
            THEN [w EXCEPT !.cm.messageQueue =
                               IF isDuplicate THEN @ ELSE Append(@, QueuedMessage(e)),
                           !.obs.dups = IF isDuplicate THEN @ + 1 ELSE @]
            ELSE w

\* startMessageInterception: the capturing listener
messageListener(w, e) ==
    IF e.data.shape # "object" \/ ~e.data.hasBridge THEN w
    ELSE IF w.cm.handshakeComplete THEN w
    ELSE IF e.data.bridge = "handshake" THEN w
    ELSE LET isFromParent == w.cm.parentOrigin = NoOrigin \/ e.origin = w.cm.parentOrigin
             isFromParentWindow == e.source = w.cm.parent \/ e.source = ParentOf(ChildWin)
             isDuplicate == \E i \in 1..Len(w.cm.messageQueue) :
                                /\ w.cm.messageQueue[i].message.bridge = e.data.bridge
                                /\ w.cm.messageQueue[i].message.property = e.data.property
                                /\ w.cm.messageQueue[i].message.uid = e.data.uid
         IN IF isFromParent /\ isFromParentWindow /\ e.data.bridge \in {"call", "request"}
            THEN [w EXCEPT !.cm.messageQueue =
                               IF isDuplicate THEN @ ELSE Append(@, QueuedMessage(e)),
                           !.obs.dups = IF isDuplicate THEN @ + 1 ELSE @,
                           !.stop = TRUE]
            ELSE w

startMessageInterception(w) == addEventListener(w, ChildWin, Listener("intercept", "child", 0))
stopMessageInterception(w) == removeEventListener(w, ChildWin, Listener("intercept", "child", 0))

\* replayQueuedMessages: arms the replay timer when the queue is not empty
replayQueuedMessages(w) ==
    IF Len(w.cm.messageQueue) = 0 THEN w
    ELSE setTimer(w, ChildRealm, "child", 2, "replay", MESSAGE_QUEUE_REPLAY_DELAY_MS)

\* A timeout callback that keeps the window in activeBridgeModels.
childTimeoutFired_KeepsLock(w) ==
    IF w.cm.isResolved THEN w
    ELSE LET w1 == [w EXCEPT !.cm.isResolved = TRUE]
             w2 == stopMessageInterception(w1)
             w3 == removeEventListener(w2, ChildWin, Listener("shake", "child", 0))
             w4 == unregisterInstance(w3, ChildRealm, ChildWin)
         IN [w4 EXCEPT !.cm.promise = IF @ = "pending" THEN "Handshake timeout" ELSE @]

\* sendHandshakeReply: the callback of the handshake timeout
childTimeoutFired(w) ==
    IF w.cm.isResolved THEN w
    ELSE LET w1 == [w EXCEPT !.cm.isResolved = TRUE]
             w2 == stopMessageInterception(w1)
             w3 == removeEventListener(w2, ChildWin, Listener("shake", "child", 0))
             w4 == unregisterInstance(w3, ChildRealm, ChildWin)
             w5 == [w4 EXCEPT !.locks = @ \ {ChildWin}]
         IN [w5 EXCEPT !.cm.promise = IF @ = "pending" THEN "Handshake timeout" ELSE @]

\* A merge in which the child's own entry wins.
mergeModel_ChildWins(model, parentModel) ==
    [k \in Keys |-> IF model[k] # None THEN model[k] ELSE parentModel[k]]

\* sendHandshakeReply: the model merge of shake
mergeModel(model, parentModel) ==
    [k \in Keys |-> IF parentModel[k] # None THEN parentModel[k] ELSE model[k]]

\* An accepting branch that sends no handshake-reply.
shakeAccept_NoReply(w, e) ==
    LET w1 == [w EXCEPT !.cm.isResolved = TRUE]
        w2 == clearTimer(w1, "child", 1)
        w3 == removeEventListener(w2, ChildWin, Listener("shake", "child", 0))
        w5 == [w3 EXCEPT !.cm.parentOrigin = e.origin,
                         !.cm.model = mergeModel(@, e.data.model),
                         !.cm.handshakeComplete = TRUE]
        w6 == stopMessageInterception(w5)
        w9 == [newChildAPI(w6) EXCEPT !.cm.promise = IF @ = "pending" THEN "resolved" ELSE @]
    IN replayQueuedMessages(w9)

\* An accepting branch that keeps listening for handshakes.
shakeAccept_KeepsListening(w, e) ==
    LET w2 == clearTimer(w, "child", 1)
        w4 == IF e.source # NoWin
              THEN [postMessage(w2, e.source, ChildWin, HandshakeReplyMsg, e.origin)
                        EXCEPT !.obs.acks = Append(@, [to |-> e.source, origin |-> e.origin])]
              ELSE w2
        w5 == [w4 EXCEPT !.cm.parentOrigin = e.origin,
                         !.cm.model = mergeModel(@, e.data.model),
                         !.cm.handshakeComplete = TRUE]
        w6 == stopMessageInterception(w5)
        w7 == IF w6.reg[ChildRealm][ChildWin].present
              THEN unregisterInstance(w6, ChildRealm, ChildWin)
              ELSE w6
        w8 == registerInstance(w7, ChildRealm, ChildWin,
                               InstanceInfo(WinOrigin(w7, ChildWin), w7.cm.parentOrigin, NoWin))
        w9 == [newChildAPI(w8) EXCEPT !.cm.promise = IF @ = "pending" THEN "resolved" ELSE @]
    IN replayQueuedMessages(w9)

\* sendHandshakeReply: the success branch of shake
shakeAccept(w, e) ==
    LET w1 == [w EXCEPT !.cm.isResolved = TRUE]
        w2 == clearTimer(w1, "child", 1)
        w3 == removeEventListener(w2, ChildWin, Listener("shake", "child", 0))
        w4 == IF e.source # NoWin
              THEN [postMessage(w3, e.source, ChildWin, HandshakeReplyMsg, e.origin)
                        EXCEPT !.obs.acks = Append(@, [to |-> e.source, origin |-> e.origin])]
              ELSE w3
        w5 == [w4 EXCEPT !.cm.parentOrigin = e.origin,
                         !.cm.model = mergeModel(@, e.data.model),
                         !.cm.handshakeComplete = TRUE]
        w6 == stopMessageInterception(w5)
        w7 == IF w6.reg[ChildRealm][ChildWin].present
              THEN unregisterInstance(w6, ChildRealm, ChildWin)
              ELSE w6
        w8 == registerInstance(w7, ChildRealm, ChildWin,
                               InstanceInfo(WinOrigin(w7, ChildWin), w7.cm.parentOrigin, NoWin))
        w9 == [newChildAPI(w8) EXCEPT !.cm.promise = IF @ = "pending" THEN "resolved" ELSE @]
    IN replayQueuedMessages(w9)

\* A shake that accepts a handshake of any sender.
shake_AnySender(w, e) ==
    IF w.cm.isResolved THEN w
    ELSE IF e.data.shape # "object" \/ ~e.data.hasBridge THEN w
    ELSE IF e.data.bridge = "handshake" THEN shakeAccept(w, e) ELSE w

\* sendHandshakeReply: shake, the 'message' listener of the handshake
shake(w, e) ==
    IF w.cm.isResolved THEN w
    ELSE IF e.data.shape # "object" \/ ~e.data.hasBridge THEN w
    ELSE LET isFromParent == e.source = w.cm.parent \/ e.source = ParentOf(ChildWin)
             isValidHandshake == e.data.bridge = "handshake" /\ isFromParent
         IN IF isValidHandshake THEN shakeAccept(w, e) ELSE w

\* new BridgeModel(model), when the window holds no BridgeModel yet
newBridgeModel(w, model) ==
    LET w1 == [w EXCEPT !.cm = [NoModel EXCEPT !.exists = TRUE, !.model = model,
                                    !.parent = ParentOf(ChildWin), !.promise = "pending"],
                        !.locks = @ \cup {ChildWin}]
        w2 == startMessageInterception(w1)
        w3 == setTimer(w2, ChildRealm, "child", 1, "childTimeout", HANDSHAKE_TIMEOUT_MS)
    IN addEventListener(w3, ChildWin, Listener("shake", "child", 0))

\* A constructor that does not look at activeBridgeModels.
constructBridgeModel_NoGuard(w, model) == newBridgeModel(w, model)

\* new BridgeModel(model): throws when activeBridgeModels holds the window
constructBridgeModel(w, model) ==
    IF ChildWin \in w.locks
    THEN [w EXCEPT !.obs.threw = @ + 1]
    ELSE newBridgeModel(w, model)

----------------------------------------------------------------------------
(* Dispatch of one MessageEvent on the child window: capturing listeners   *)
(* first, then the others in registration order; a listener that calls     *)
(* stopImmediatePropagation ends the dispatch (counted in obs.stopped).     *)

childListener(w, l, e) ==
    CASE l.kind = "intercept" -> messageListener(w, e)
      [] l.kind = "shake" -> shake(w, e)
      [] l.kind = "capi" -> childHandleMessage(w, e)
      [] OTHER -> w

captureFirst(q) ==
    SelectSeq(q, LAMBDA l : l.kind = "intercept") \o SelectSeq(q, LAMBDA l : l.kind # "intercept")

RECURSIVE dispatchChildFrom(_, _, _, _)
dispatchChildFrom(w, snapshot, i, e) ==
    IF i > Len(snapshot) \/ w.stop
    THEN [w EXCEPT !.stop = FALSE, !.obs.stopped = IF w.stop THEN @ + 1 ELSE @]
    ELSE LET l == snapshot[i]
             w1 == IF InSeq(w.lis[ChildWin], l) THEN childListener(w, l, e) ELSE w
         IN dispatchChildFrom(w1, snapshot, i + 1, e)

dispatchChild(w, e) == dispatchChildFrom(w, captureFirst(w.lis[ChildWin]), 1, e)

\* A replay callback that dispatches the queue from its end to its start.
replayFired_Reversed(w) ==
    LET RECURSIVE replayBack(_, _, _)
        replayBack(v, queue, i) ==
            IF i < 1 THEN v
            ELSE replayBack(dispatchChild(v, MessageEvent(queue[i].source, queue[i].origin,
                                                          queue[i].message)),
                            queue, i - 1)
    IN [replayBack(w, w.cm.messageQueue, Len(w.cm.messageQueue))
            EXCEPT !.cm.messageQueue = <<>>]

\* replayQueuedMessages: the callback of the replay timer
RECURSIVE replayFrom(_, _, _)
replayFrom(w, queue, i) ==
    IF i > Len(queue) THEN w
    ELSE replayFrom(dispatchChild(w, MessageEvent(queue[i].source, queue[i].origin,
                                                  queue[i].message)),
                    queue, i + 1)

replayFired(w) == [replayFrom(w, w.cm.messageQueue, 1) EXCEPT !.cm.messageQueue = <<>>]

----------------------------------------------------------------------------
(* The event loop: timers *)

\* A timer's realm still runs: the child's realm dies with its iframe.
RealmRuns(w, realm) == realm = HostWin \/ w.frames["A"]

DueTimers(w, realm) == SelectSeq(w.timers, LAMBDA t : t.realm = realm /\ t.due <= w.now)

dropTimer(w, t) == [w EXCEPT !.timers = SeqRemove(@, t)]

\* A repeating timer is armed again after its callback, unless the callback cleared it.
rearm(w, t) ==
    IF InSeq(w.timers, t)
    THEN [w EXCEPT !.timers = Append(SeqRemove(@, t),
                                     [t EXCEPT !.due = t.due + HANDSHAKE_INTERVAL_MS])]
    ELSE w

timerFired(w, t) ==
    CASE t.kind = "fallback" -> fallbackFired(dropTimer(w, t), t.owner)
      [] t.kind = "responseInterval" -> rearm(doSend(w, t.owner), t)
      [] t.kind = "handshakeTimeout" -> handshakeTimeoutFired(dropTimer(w, t), t.owner)
      [] t.kind = "childTimeout" -> childTimeoutFired(dropTimer(w, t))
      [] t.kind = "replay" -> replayFired(dropTimer(w, t))
      [] OTHER -> dropTimer(w, t)

\* The realm's event loop runs the callback of its earliest-armed due timer.
FireTimer(realm) ==
    /\ RealmRuns(World, realm)
    /\ DueTimers(World, realm) # <<>>
    /\ LET t == Head(DueTimers(World, realm))
       IN Commit(timerFired(World, t), Task("timer:" \o t.kind, t.owner, NoEvent))

LiveDues == {timers[i].due : i \in {j \in 1..Len(timers) : RealmRuns(World, timers[j].realm)}}
NextGrid(tick) == (now \div tick + 1) * tick
NextInstant(tick) ==
    IF \E d \in LiveDues : d < NextGrid(tick)
    THEN CHOOSE d \in LiveDues : \A d2 \in LiveDues : d <= d2
    ELSE NextGrid(tick)

\* Time passes, up to the next timer deadline or the next point of the grid:
\* no callback that is due is skipped.
Advance(maxTime, tick) ==
    /\ now < maxTime
    /\ \A d \in LiveDues : d > now
    /\ Commit([World EXCEPT !.now = NextInstant(tick)], Task("advance", None, NoEvent))

----------------------------------------------------------------------------
(* The event loop: message events *)

dispatchOn(w, win, e) ==
    IF ~Alive(w, win) THEN w
    ELSE IF win = HostWin THEN dispatchHost(w, w.lis[HostWin], 1, e)
    ELSE IF win = ChildWin THEN dispatchChild(w, e)
    ELSE w

\* The oldest message posted to a window is dispatched on it.
Deliver(win) ==
    /\ inbox[win] # <<>>
    /\ LET e == Head(inbox[win])
           w == [World EXCEPT !.inbox[win] = Tail(@)]
       IN Commit(dispatchOn(w, win, e), Task("message", win, e))

\* A context outside the model posts a message, which is dispatched on win.
EnvMessage(win, e, maxEnv) ==
    /\ obs.env < maxEnv
    /\ Alive(World, win)
    /\ Commit(dispatchOn([World EXCEPT !.obs.env = @ + 1], win, e), Task("message", win, e))

----------------------------------------------------------------------------
(* Host operations *)

GreetModel == [EmptyModel EXCEPT !["greet"] = "hello"]

\* A host model with a key the child's model has too.
HostModel == [GreetModel EXCEPT !["value"] = "host-value"]

HostConstruct(s, url, model) ==
    /\ hs[s].promise = "none"
    /\ Commit(newBridgeParent(World, s, url, model), Task("construct", s, NoEvent))

\* The iframe's 'load' event.
FrameLoad(s, maxLoads) ==
    /\ hs[s].promise # "none"
    /\ frames[s]
    /\ hs[s].loads < maxLoads
    /\ Commit(loaded([World EXCEPT !.hs[s].loads = @ + 1], s), Task("load", s, NoEvent))

CanCall(s) == api[s].exists /\ obs.ops < MaxOps
Op(w) == [w EXCEPT !.obs.ops = @ + 1]

Get(s, property) ==
    /\ CanCall(s)
    /\ Commit(get(Op(World), s, property), Task("get", s, NoEvent))

Call(s, property, data) ==
    /\ CanCall(s)
    /\ Commit(call(Op(World), s, property, data), Task("call", s, NoEvent))

On(s, eventName) ==
    /\ CanCall(s)
    /\ Commit(on(Op(World), s, eventName), Task("on", s, NoEvent))

Destroy(s) ==
    /\ CanCall(s)
    /\ Commit(destroy(Op(World), s), Task("destroy", s, NoEvent))

----------------------------------------------------------------------------
(* Child operations *)

MaxThrows == 1

ChildModelA == [EmptyModel EXCEPT !["doWork"] = Fn, !["value"] = "child-value"]

ModelConstruct(model) ==
    /\ Alive(World, ChildWin)
    /\ obs.threw < MaxThrows
    /\ Commit(constructBridgeModel(World, model), Task("model", "child", NoEvent))

Emit(name, data) ==
    /\ capi.exists
    /\ Alive(World, ChildWin)
    /\ obs.ops < MaxOps
    /\ Commit(emit(Op(World), name, data), Task("emit", "child", NoEvent))

----------------------------------------------------------------------------
(* Initial states *)

NoObs ==
    [offers |-> [s \in Sessions |-> 0], invoked |-> [s \in Sessions |-> <<>>],
     resolved |-> [s \in Sessions |-> <<>>], calls |-> <<>>, replies |-> <<>>,
     acks |-> <<>>, emits |-> 0, threw |-> 0, env |-> 0, ops |-> 0,
     inTimeAt |-> -1, late |-> FALSE, dups |-> 0, raised |-> 0, stopped |-> 0]

\* The world before any constructor ran; childFrame: the child's window exists.
EmptyWorld(childFrame) ==
    [now |-> 0, timers |-> <<>>, hs |-> [s \in Sessions |-> NoSession],
     api |-> [s \in Sessions |-> NoApi],
     frames |-> [s \in Sessions |-> s = "A" /\ childFrame],
     reg |-> [r \in Realms |-> [win \in Windows \cup {NoWin} |-> NoInstance]],
     inbox |-> [win \in Windows |-> <<>>], lis |-> [win \in Windows |-> <<>>],
     midc |-> 0, cm |-> NoModel, capi |-> NoChildApi, locks |-> {}, obs |-> NoObs,
     stop |-> FALSE]

InitWorld(w) ==
    /\ now = w.now
    /\ timers = w.timers
    /\ hs = w.hs
    /\ api = w.api
    /\ frames = w.frames
    /\ reg = w.reg
    /\ inbox = w.inbox
    /\ lis = w.lis
    /\ midc = w.midc
    /\ cm = w.cm
    /\ capi = w.capi
    /\ locks = w.locks
    /\ obs = w.obs
    /\ last = Task("init", None, NoEvent)

----------------------------------------------------------------------------
(* What the environment can send *)

Malformed(data, how) ==
    CASE how = "no-data" -> [data EXCEPT !.shape = "null"]
      [] how = "scalar" -> [data EXCEPT !.shape = "scalar"]
      [] how = "no-bridge" -> [data EXCEPT !.hasBridge = FALSE]
      [] how = "wrong-type" -> [data EXCEPT !.type = "text/plain"]
      [] OTHER -> [data EXCEPT !.bridge = "invalid-type"]

\* A sender exists: a detached iframe's window sends nothing; an event may
\* carry a null source.
CanSend(w, source) == source = NoWin \/ Alive(w, source)

\* Events from contexts that are no session's counterpart.
StrangerEvents ==
    {MessageEvent(src, o, d) : src \in {WinX, NoWin}, o \in {OriginA, OriginX},
                               d \in {HandshakeReplyMsg, EmitMsg("ev", "payload")}}

----------------------------------------------------------------------------
(* SpecHost: one host session whose counterpart never answers *)

\* new BridgeParent({url: UrlA, model: {greet: "hello"}}) has just run.
InitHost == InitWorld(newBridgeParent(EmptyWorld(FALSE), "A", UrlA, GreetModel))

NextHost ==
    \/ FrameLoad("A", MaxLoads)
    \/ FireTimer(HostWin)
    \/ Advance(MaxTime, TICK_MS)
    \/ \E e \in StrangerEvents : EnvMessage(HostWin, e, MaxEnvHost)

SpecHost == InitHost /\ [][NextHost]_vars

\* Some timer of session s's handshake is armed.
HandshakeTimerArmed(s) == \E i \in 1..Len(timers) : timers[i].owner = s

\* C1: a handshake that has used up its attempts without an answer is rejected
\* with the timeout failure one interval later: as long as the future of such a
\* handshake is pending, a timer that will reject it is armed.
C1_TimeoutRejects ==
    \A s \in Sessions :
        (hs[s].promise = "pending" /\ hs[s].attempt >= MAX_HANDSHAKE_ATTEMPTS)
            => HandshakeTimerArmed(s)

----------------------------------------------------------------------------
(* SpecMulti: two host sessions in one host window; the embedded contexts  *)
(* are not under the host's control and send what they like.  Neither      *)
(* iframe signals 'load' (SpecHost covers load detection): the fallback    *)
(* timers start the offers.                                                *)

IsMessageTo(task, win) == task.kind = "message" /\ task.who = win

\* Events a host window may see: any sender, any origin the sender may show
\* (an embedded window keeps its identity when it navigates), any of these data.
HostEvents ==
    {MessageEvent(src, o, d) :
        src \in {WinA, WinB, WinX}, o \in {OriginA, OriginB},
        d \in {HandshakeReplyMsg, EmitMsg("ev", "payload"),
               Malformed(HandshakeReplyMsg, "wrong-type")}}

\* Session B embeds a page of the same origin as session A's, or of another one.
InitMulti ==
    \E url \in Urls :
        InitWorld(newBridgeParent(newBridgeParent(EmptyWorld(FALSE), "A", UrlA, GreetModel),
                                  "B", url, EmptyModel))

NextMulti ==
    \/ FireTimer(HostWin)
    \/ Advance(MaxTimeMulti, TICK_MS)
    \/ \E e \in HostEvents : CanSend(World, e.source) /\ EnvMessage(HostWin, e, MaxEnv)

SpecMulti == InitMulti /\ [][NextMulti]_vars

\* C2: a host handshake is established only by a validated handshake-reply whose
\* sender is the session's own embedded window, and a message of any other sender
\* leaves the handshake as it was.
C2_OnlyOwnChildEstablishes ==
    [][\A s \in Sessions :
          /\ (hs[s].promise = "pending" /\ hs'[s].promise = "resolved")
                => /\ IsMessageTo(last', HostWin)
                   /\ sanitizeMessage(last'.e, NoOrigin)
                   /\ last'.e.data.bridge = "handshake-reply"
                   /\ last'.e.source = hs[s].child
          /\ (IsMessageTo(last', HostWin) /\ last'.e.source # hs[s].child)
                => hs'[s] = hs[s]]_vars

\* C3: a message sent by the counterpart of an established session a neither
\* completes nor fails the pending handshake of another session b.
C3_NoCrossSessionInterference ==
    [][\A a, b \in Sessions :
          (/\ a # b
           /\ api[a].exists
           /\ hs[b].promise = "pending"
           /\ IsMessageTo(last', HostWin)
           /\ last'.e.source = hs[a].child)
              => hs'[b].promise = "pending"]_vars

\* C4: while a host handshake is pending, a validated message of its own embedded
\* window whose kind is not handshake-reply rejects the future with 'Failed
\* handshake' in the very task that dispatches the message.
C4_InvalidReplyRejects ==
    [][\A s \in Sessions :
          (/\ hs[s].promise = "pending"
           /\ IsMessageTo(last', HostWin)
           /\ sanitizeMessage(last'.e, NoOrigin)
           /\ last'.e.source = hs[s].child
           /\ last'.e.data.bridge # "handshake-reply")
              => hs'[s].promise = "Failed handshake"]_vars

\* C4's case: an emit of the session's own window failed the handshake before the
\* attempts were used up and before any timeout was armed.
C4_Witness ==
    \E s \in Sessions :
        /\ hs[s].promise = "Failed handshake"
        /\ IsMessageTo(last, HostWin)
        /\ last.e.source = hs[s].child
        /\ last.e.data.bridge = "emit"
        /\ hs[s].attempt < MAX_HANDSHAKE_ATTEMPTS
        /\ hs[s].attempt > 0
        /\ hs[s].handshakeTimeout = 0

----------------------------------------------------------------------------
(* SpecApi: two established host sessions and their session APIs *)

OwnReply(w, s) == MessageEvent(FrameWin(s), WinOrigin(w, FrameWin(s)), HandshakeReplyMsg)

\* new BridgeParent(...) ran for s and its window's handshake-reply was dispatched.
established(w, s, url, model) ==
    LET w1 == newBridgeParent(w, s, url, model)
    IN dispatchHost(w1, w1.lis[HostWin], 1, OwnReply(w1, s))

InitApi ==
    \E url \in Urls :
        InitWorld(established(established(EmptyWorld(FALSE), "A", UrlA, GreetModel),
                              "B", url, EmptyModel))

EventNames == {"ev", "other"}

ApiEvents ==
    {MessageEvent(src, o, d) :
        src \in {WinA, WinB, WinX, NoWin}, o \in {OriginA, OriginB, OriginX},
        d \in {EmitMsg("ev", "payload"), ReplyMsg(1, "v1"), ReplyMsg(2, "v2")}}

NextApi ==
    \/ \E s \in Sessions, n \in EventNames : On(s, n)
    \/ \E s \in Sessions : Get(s, "value")
    \/ \E s \in Sessions : Call(s, "doWork", "payload")
    \/ \E s \in Sessions : Destroy(s)
    \/ \E e \in ApiEvents : CanSend(World, e.source) /\ EnvMessage(HostWin, e, MaxEnv)

SpecApi == InitApi /\ [][NextApi]_vars

\* C5: on an established host session, a message whose origin is not the session's
\* verified counterpart origin invokes no on() handler of the session and resolves
\* no pending get of the session, whoever sent it and whatever it carries.
C5_OriginIsolation ==
    [][\A s \in Sessions :
          (/\ api[s].exists
           /\ IsMessageTo(last', HostWin)
           /\ last'.e.origin # api[s].childOrigin)
              => /\ obs'.invoked[s] = obs.invoked[s]
                 /\ obs'.resolved[s] = obs.resolved[s]
                 /\ api'[s] = api[s]]_vars

\* C5's case: the session's own window, showing another origin, sent the reply to a
\* pending get, or an event a handler waits for, and nothing happened.
C5_Witness ==
    \E s \in Sessions :
        /\ api[s].exists /\ ~api[s].destroyed
        /\ IsMessageTo(last, HostWin)
        /\ last.e.source = api[s].child
        /\ last.e.origin # api[s].childOrigin
        /\ \/ last.e.data.bridge = "reply" /\ last.e.data.uid \in api[s].gets
           \/ /\ last.e.data.bridge = "emit"
              /\ \E i \in 1..Len(api[s].events) : api[s].events[i].name = last.e.data.evName
        /\ obs.invoked[s] = <<>>
        /\ obs.resolved[s] = <<>>

----------------------------------------------------------------------------
(* SpecChild: the child's window; its parent and the other contexts are    *)
(* not modelled and send what they like.                                   *)

ChildEvents ==
    {MessageEvent(src, o, d) :
        src \in {HostWin, WinX}, o \in {OriginH, OriginX},
        d \in {HandshakeMsg(GreetModel), HandshakeMsg(HostModel), CallMsg("doWork", "payload"),
               RequestMsg("value", 1), RequestMsg("value", 2)}}

\* new BridgeModel({doWork: fn, value: "child-value"}) has just run in the child.
InitChild == InitWorld(newBridgeModel(EmptyWorld(TRUE), ChildModelA))

NextChild ==
    \/ ModelConstruct(ChildModelA)
    \/ FireTimer(ChildRealm)
    \/ Advance(MaxTimeChild, TICK_CHILD_MS)
    \/ \E e \in ChildEvents : EnvMessage(ChildWin, e, MaxEnvChild)

SpecChild == InitChild /\ [][NextChild]_vars

\* C6: an established child session dispatches an invoke to the model, and answers
\* a value-request, only for a message sent by the parent context: a message of
\* any other sender changes nothing, whatever origin it carries.
C6_ChildChecksSender ==
    [][(/\ capi.exists
        /\ IsMessageTo(last', ChildWin)
        /\ last'.e.source # capi.parent)
           => /\ obs'.calls = obs.calls
              /\ obs'.replies = obs.replies]_vars

ChildTimers == {i \in 1..Len(timers) : timers[i].owner = "child"}

\* C7: a construction on a window that holds a BridgeModel throws and changes
\* nothing: no listener, no timer, and the instance, its queue and the lock are
\* as they were; so the window never has more than one interception filter, one
\* handshake listener and one handshake timeout.
C7_OneModelPerWindow ==
    /\ [][(last'.kind = "model" /\ ChildWin \in locks)
             => /\ obs'.threw = obs.threw + 1
                /\ cm' = cm /\ capi' = capi /\ locks' = locks
                /\ lis' = lis /\ timers' = timers /\ reg' = reg /\ inbox' = inbox]_vars
    /\ [](Cardinality({i \in ChildTimers : timers[i].kind = "childTimeout"}) <= 1)

\* C7's case: a second construction threw while the first instance held a message.
C7_Witness ==
    /\ last.kind = "model"
    /\ obs.threw = 1
    /\ cm.promise = "pending"
    /\ Len(cm.messageQueue) > 0
    /\ Len(lis[ChildWin]) = 2

\* C8: a listening child has its handshake timeout armed; once the timeout has
\* rejected the future, the window has no listener of the model left and is not
\* in activeBridgeModels, and the next construction succeeds without throwing.
C8_ChildTimeout ==
    /\ [](cm.promise = "pending"
            => \E i \in ChildTimers :
                  timers[i].kind = "childTimeout" /\ timers[i].due <= now + HANDSHAKE_TIMEOUT_MS)
    /\ [](cm.promise = "Handshake timeout"
            => lis[ChildWin] = <<>> /\ ChildWin \notin locks /\ ChildTimers = {})
    /\ [][(last'.kind = "model" /\ cm.promise = "Handshake timeout")
             => /\ cm'.promise = "pending"
                /\ obs'.threw = obs.threw
                /\ ChildWin \in locks']_vars

\* C8's case: the first instance timed out and a second construction succeeded.
C8_Witness ==
    /\ last.kind = "model"
    /\ cm.promise = "pending"
    /\ now >= HANDSHAKE_TIMEOUT_MS
    /\ obs.threw = 0
    /\ Len(lis[ChildWin]) = 2

\* C9: a handshake whose sender is not the child's parent context changes nothing
\* in the child: no handshake-reply is sent, the model instance (its parent
\* origin, its model, its state) is as it was, and it keeps listening with its
\* timeout armed.
C9_ForeignOfferIgnored ==
    [][(/\ IsMessageTo(last', ChildWin)
        /\ last'.e.data.bridge = "handshake"
        /\ last'.e.source # ParentOf(ChildWin))
           => /\ obs'.acks = obs.acks
              /\ cm' = cm /\ capi' = capi
              /\ lis' = lis /\ timers' = timers
              /\ reg' = reg /\ inbox' = inbox]_vars

\* C9's case: a listening child saw a handshake of another window and still listens.
C9_Witness ==
    /\ IsMessageTo(last, ChildWin)
    /\ last.e.data.bridge = "handshake"
    /\ last.e.source = WinX
    /\ cm.promise = "pending"
    /\ InSeq(lis[ChildWin], Listener("shake", "child", 0))
    /\ obs.acks = <<>>

----------------------------------------------------------------------------
(* Spec: one host and its child, end to end. The host has constructed its   *)
(* BridgeParent for the frame; the frame's script constructs the            *)
(* BridgeModel at some time. Messages wait in the inboxes for as long as    *)
(* the channel likes; every event loop eventually runs what it holds.       *)

Init == InitWorld(newBridgeParent(EmptyWorld(FALSE), "A", UrlA, GreetModel))

\* The frame's script runs: it constructs the BridgeModel, once.
ChildScript ==
    /\ ~cm.exists
    /\ ModelConstruct(ChildModelA)

Next ==
    \/ FrameLoad("A", MaxLoadsE2E)
    \/ ChildScript
    \/ FireTimer(HostWin)
    \/ FireTimer(ChildRealm)
    \/ Deliver(HostWin)
    \/ Deliver(ChildWin)
    \/ Advance(MaxTimeE2E, HANDSHAKE_INTERVAL_MS)

Fairness ==
    /\ WF_vars(FireTimer(HostWin))
    /\ WF_vars(FireTimer(ChildRealm))
    /\ WF_vars(Deliver(HostWin))
    /\ WF_vars(Deliver(ChildWin))
    /\ WF_vars(Advance(MaxTimeE2E, HANDSHAKE_INTERVAL_MS))

Spec == Init /\ [][Next]_vars /\ Fairness

BothEstablished ==
    /\ hs["A"].promise = "resolved" /\ api["A"].exists
    /\ cm.promise = "resolved" /\ capi.exists

NextOfferBy ==
    (IF obs.inTimeAt > FALLBACK_DELAY_MS THEN obs.inTimeAt ELSE FALLBACK_DELAY_MS)
        + HANDSHAKE_INTERVAL_MS

----------------------------------------------------------------------------
(* The queue of the listening child (SpecChild) *)

\* The dedup key of startMessageInterception: (bridge, property, uid).
SameTuple(m1, m2) ==
    m1.bridge = m2.bridge /\ m1.property = m2.property /\ m1.uid = m2.uid

QueuedAs(queue, m) == {i \in 1..Len(queue) : SameTuple(queue[i].message, m)}

\* The calls of the model made by the task that just ran.
NewCalls == SubSeq(obs'.calls, Len(obs.calls) + 1, Len(obs'.calls))

\* C11: however often the parent sends a (bridge, property, uid) tuple while the
\* child listens for the handshake, the queue holds one message of that tuple and
\* nothing is invoked yet; the replay after the handshake dispatches each queued
\* message once, so a queued call of a model function invokes it exactly once.
C11_QueueDedup ==
    /\ [](\A i, j \in 1..Len(cm.messageQueue) :
             SameTuple(cm.messageQueue[i].message, cm.messageQueue[j].message) => i = j)
    /\ [][(/\ IsMessageTo(last', ChildWin)
           /\ cm.promise = "pending"
           /\ last'.e.source = ParentOf(ChildWin)
           /\ last'.e.data.shape = "object" /\ last'.e.data.hasBridge
           /\ last'.e.data.bridge \in {"call", "request"})
              => /\ Cardinality(QueuedAs(cm'.messageQueue, last'.e.data)) = 1
                 /\ obs'.calls = obs.calls /\ obs'.replies = obs.replies]_vars
    /\ [][last'.kind = "timer:replay"
              => \A i \in 1..Len(cm.messageQueue) :
                    LET q == cm.messageQueue[i]
                    IN (/\ q.message.bridge = "call"
                        /\ q.origin = capi.parentOrigin
                        /\ Lookup(cm.model, q.message.property) = Fn)
                          => Cardinality({k \in 1..Len(NewCalls) :
                                 NewCalls[k] = <<q.message.property, q.message.data>>}) = 1]_vars

\* C11's case: the parent sent the same call twice (one was a duplicate), then
\* the handshake; the replay ran and the function was called once.
C11_Witness ==
    /\ last.kind = "timer:replay"
    /\ obs.dups = 1
    /\ capi.exists
    /\ obs.calls = << <<"doWork", "payload">> >>

\* The message events the replay makes of the queue, in queue order.
QueuedEvents ==
    [i \in 1..Len(cm.messageQueue) |->
        MessageEvent(cm.messageQueue[i].source, cm.messageQueue[i].origin,
                     cm.messageQueue[i].message)]

\* What handleMessage does with these events: the calls and the replies, in order.
ExpectedCalls ==
    LET sel == SelectSeq(QueuedEvents, LAMBDA e :
                   /\ sanitizeMessage(e, capi.parentOrigin)
                   /\ e.data.bridge = "call"
                   /\ Lookup(cm.model, e.data.property) = Fn)
    IN [i \in 1..Len(sel) |-> <<sel[i].data.property, sel[i].data.data>>]
ExpectedReplies ==
    LET sel == SelectSeq(QueuedEvents, LAMBDA e :
                   /\ sanitizeMessage(e, capi.parentOrigin)
                   /\ e.data.bridge = "request"
                   /\ ~IsFunction(Lookup(cm.model, e.data.property)))
    IN [i \in 1..Len(sel) |-> [to |-> sel[i].source, origin |-> sel[i].origin,
                               uid |-> sel[i].data.uid,
                               value |-> Lookup(cm.model, sel[i].data.property)]]

NewReplies == SubSeq(obs'.replies, Len(obs.replies) + 1, Len(obs'.replies))

ReplayTimers == {i \in ChildTimers : timers[i].kind = "replay"}

\* C12: a handshake that succeeds with a non-empty queue arms one replay, due
\* MESSAGE_QUEUE_REPLAY_DELAY_MS later; until it runs the queue is kept as it is;
\* when it runs every queued message goes through handleMessage once, in queue
\* order, and the queue is empty afterwards.
C12_ReplayInOrder ==
    /\ []((capi.exists /\ cm.messageQueue # <<>>) <=> ReplayTimers # {})
    /\ [](Cardinality(ReplayTimers) <= 1)
    /\ [][(~capi.exists /\ capi'.exists /\ cm.messageQueue # <<>>)
             => /\ cm'.messageQueue = cm.messageQueue
                /\ \E i \in 1..Len(timers') :
                      /\ timers'[i].kind = "replay"
                      /\ timers'[i].due = now + MESSAGE_QUEUE_REPLAY_DELAY_MS]_vars
    /\ [][(capi.exists /\ last'.kind # "timer:replay")
             => cm'.messageQueue = cm.messageQueue]_vars
    /\ [][last'.kind = "timer:replay"
             => /\ NewCalls = ExpectedCalls
                /\ NewReplies = ExpectedReplies
                /\ cm'.messageQueue = <<>>]_vars

\* C12's case: two requests were queued, the handshake succeeded, the replay ran
\* at its time and answered the first request first.
C12_Witness ==
    /\ last.kind = "timer:replay"
    /\ now = MESSAGE_QUEUE_REPLAY_DELAY_MS
    /\ cm.messageQueue = <<>>
    /\ Len(obs.replies) = 2
    /\ obs.replies[1].uid # obs.replies[2].uid

----------------------------------------------------------------------------
(* The session API of the host (SpecApi) *)

\* e is a well-formed message of session s's own window with its verified origin.
FromCounterpart(s, e) ==
    /\ e.source = FrameWin(s)
    /\ e.origin = api[s].childOrigin
    /\ e.data.shape = "object" /\ e.data.hasBridge
    /\ e.data.bridge \in validTypes
    /\ e.data.type = MESSAGE_TYPE

\* C13: a message sent by a window resolves the pending get with correlation id
\* uid of session s exactly if it is a reply of s's counterpart that carries uid;
\* it resolves that get with the reply's value and no other get of any session;
\* no get is resolved twice, and nothing but a message resolves a get.
C13_CorrelationRoundTrip ==
    /\ [][(IsMessageTo(last', HostWin) /\ last'.e.source # NoWin)
            => \A s \in Sessions :
                  LET e == last'.e
                      hit == {uid \in api[s].gets :
                                 /\ FromCounterpart(s, e)
                                 /\ e.data.bridge = "reply"
                                 /\ e.data.uid = uid}
                  IN /\ api'[s].gets = api[s].gets \ hit
                     /\ Cardinality(hit) <= 1
                     /\ obs'.resolved[s] =
                            IF hit = {} THEN obs.resolved[s]
                            ELSE Append(obs.resolved[s], <<e.data.uid, e.data.value>>)]_vars
    /\ [][~IsMessageTo(last', HostWin) => obs'.resolved = obs.resolved]_vars
    /\ [](\A s, t \in Sessions :
            \A i \in 1..Len(obs.resolved[s]), j \in 1..Len(obs.resolved[t]) :
                obs.resolved[s][i][1] = obs.resolved[t][j][1] => (s = t /\ i = j))

\* C13's case: two gets were pending; a counterpart's reply that matched neither
\* get of its session resolved nothing, and the matching reply then resolved the
\* one get and left the other pending.
C13_Witness ==
    \E s \in Sessions :
        /\ IsMessageTo(last, HostWin)
        /\ last.e.source = FrameWin(s)
        /\ last.e.data.bridge = "reply"
        /\ obs.env = 2
        /\ obs.resolved[s] = << <<last.e.data.uid, last.e.data.value>> >>
        /\ \A t \in Sessions \ {s} : obs.resolved[t] = <<>>
        /\ Cardinality(api["A"].gets \cup api["B"].gets) = 1

----------------------------------------------------------------------------
(* SpecServe: an established child serves calls and requests. Its model has *)
(* a function, a datum and a function that throws; the names asked for are  *)
(* those, a name the model lacks, two names every object inherits, and the  *)
(* empty name.                                                              *)

ChildModelB == [ChildModelA EXCEPT !["boom"] = FnThrows]

PropertyNames == {"doWork", "value", "boom", "missing", "toString", "__defineGetter__", ""}

ServeEvents ==
    {MessageEvent(HostWin, o, d) :
        o \in {OriginH, OriginX},
        d \in {CallMsg(p, "payload") : p \in PropertyNames}
              \cup {RequestMsg(p, 1) : p \in PropertyNames}}

\* new BridgeModel(model) ran and the parent's handshake was dispatched.
InitServe ==
    InitWorld(dispatchChild(newBridgeModel(EmptyWorld(TRUE), ChildModelB),
                            MessageEvent(HostWin, OriginH, HandshakeMsg(GreetModel))))

NextServe ==
    \/ \E e \in ServeEvents : EnvMessage(ChildWin, e, MaxEnvServe)
    \/ Emit("ev", "payload")

SpecServe == InitServe /\ [][NextServe]_vars

\* The model has an entry of its own under this name.
OwnEntry(property) == property \in Keys /\ cm.model[property] # None

\* The message dispatched is a validated message of this kind from the parent.
Validated(kind) ==
    /\ capi.exists
    /\ IsMessageTo(last', ChildWin)
    /\ sanitizeMessage(last'.e, capi.parentOrigin)
    /\ last'.e.source = capi.parent
    /\ last'.e.data.bridge = kind

\* C14: for every validated request, whatever property it names, the child sends
\* exactly one reply, to the sender and origin of the request and with its uid;
\* the value is that of the model's entry (undefined when the model has no such
\* entry), and no exception leaves the handler.
C14_RequestAnswered ==
    [][Validated("request")
         => LET e == last'.e
            IN /\ obs'.raised = obs.raised
               /\ Len(NewReplies) = 1
               /\ NewReplies[1].to = e.source
               /\ NewReplies[1].origin = e.origin
               /\ NewReplies[1].uid = e.data.uid
               /\ (~OwnEntry(e.data.property) => NewReplies[1].value = None)
               /\ ((OwnEntry(e.data.property) /\ ~IsFunction(cm.model[e.data.property]))
                      => NewReplies[1].value = cm.model[e.data.property])]_vars

\* C15: a validated call that names no function entry of the model invokes
\* nothing, sends nothing and raises nothing; a validated request that names no
\* entry of the model is answered with one reply whose value is undefined, and
\* raises nothing.
C15_MissingTarget ==
    /\ [][(/\ Validated("call")
           /\ ~(OwnEntry(last'.e.data.property) /\ IsFunction(cm.model[last'.e.data.property])))
             => /\ obs'.calls = obs.calls
                /\ obs'.replies = obs.replies
                /\ inbox' = inbox
                /\ obs'.raised = obs.raised]_vars
    /\ [][(Validated("request") /\ ~OwnEntry(last'.e.data.property))
             => /\ Len(NewReplies) = 1
                /\ NewReplies[1].uid = last'.e.data.uid
                /\ NewReplies[1].value = None
                /\ obs'.raised = obs.raised]_vars

----------------------------------------------------------------------------
(* SpecEvents: two established host sessions, their on() handlers and the  *)
(* emit messages that reach the host; a message that was in flight when    *)
(* its sender's iframe was removed is still dispatched.                    *)

EventNamesAll == {"ev", "other", "", "toString"}

EmitEvents ==
    {MessageEvent(src, o, EmitMsg(n, "payload")) :
        src \in {WinA, WinB, NoWin}, o \in {OriginA, OriginB}, n \in EventNamesAll}

NextEvents ==
    \/ \E s \in Sessions, n \in EventNamesAll : On(s, n)
    \/ \E s \in Sessions : Destroy(s)
    \/ \E e \in EmitEvents : EnvMessage(HostWin, e, MaxEnv)

SpecEvents == InitApi /\ [][NextEvents]_vars

\* What the handlers registered for a name are called with, in registration order.
HandlersOf(s, name, data) ==
    LET sel == SelectSeq(api[s].events, LAMBDA h : h.name = name)
    IN [i \in 1..Len(sel) |-> <<sel[i].id, data>>]

NewInvoked(s) == SubSeq(obs'.invoked[s], Len(obs.invoked[s]) + 1, Len(obs'.invoked[s]))

\* C16: on(name, handler) registers the handler under any name, and an emit of
\* the session's counterpart calls the handlers registered under its name, each
\* once, in registration order, with its data, and no other handler; nothing is
\* raised.
C16_HandlersInOrder ==
    /\ [][\A s \in Sessions :
            (last'.kind = "on" /\ last'.who = s)
               => /\ Len(api'[s].events) = Len(api[s].events) + 1
                  /\ obs'.raised = obs.raised]_vars
    /\ [][\A s \in Sessions :
            (/\ api[s].exists /\ ~api[s].destroyed
             /\ IsMessageTo(last', HostWin)
             /\ FromCounterpart(s, last'.e)
             /\ last'.e.data.bridge = "emit")
               => /\ NewInvoked(s) = HandlersOf(s, last'.e.data.evName, last'.e.data.evData)
                  /\ obs'.raised = obs.raised]_vars

\* C17: once destroy() has run on an established session, activeInstances has no
\* entry for the session's child window, the iframe is detached and the session's
\* message listener is gone: no message invokes a handler of the session.
C17_DestroyCleansUp ==
    /\ [](\A s \in Sessions :
            api[s].destroyed
               => /\ ~reg[HostWin][FrameWin(s)].present
                  /\ ~frames[s]
                  /\ ~InSeq(lis[HostWin], Listener("api", s, 0)))
    /\ [][\A s \in Sessions :
            (api[s].destroyed /\ IsMessageTo(last', HostWin))
               => obs'.invoked[s] = obs.invoked[s]]_vars

\* C17's case: a session with a handler for "ev" was destroyed, and an "ev" emit of
\* its own child, in flight at that time, was dispatched: the handler did not run.
C17_Witness ==
    \E s \in Sessions :
        /\ api[s].destroyed
        /\ \E i \in 1..Len(api[s].events) : api[s].events[i].name = "ev"
        /\ IsMessageTo(last, HostWin)
        /\ last.e.source = FrameWin(s)
        /\ last.e.origin = api[s].childOrigin
        /\ last.e.data.evName = "ev"
        /\ obs.invoked[s] = <<>>

----------------------------------------------------------------------------
(* The failure paths of the host handshake (SpecHost) *)

Rejected(s) == hs[s].promise \in {"Failed handshake", "Handshake timeout after max attempts"}

\* C18: once the future of a host handshake is rejected, no interval or timeout of
\* the handshake is scheduled and no handshake is sent any more, activeInstances
\* has no entry for the child window and the iframe is detached, however often
\* and whenever 'load' fired.
C18_FailureCleansUp ==
    /\ [](\A s \in Sessions :
            Rejected(s)
               => /\ \A i \in 1..Len(timers) :
                        timers[i].owner = s
                           => timers[i].kind \notin {"responseInterval", "handshakeTimeout"}
                  /\ ~reg[HostWin][FrameWin(s)].present
                  /\ ~frames[s])
    /\ [][\A s \in Sessions : Rejected(s) => obs'.offers[s] = obs.offers[s]]_vars

----------------------------------------------------------------------------
(* SpecRegistry: registerInstance and unregisterInstance on the host's      *)
(* activeInstances, for every window, every BridgeInstanceInfo and every    *)
(* content of the map; both iframes start attached.                        *)

Infos ==
    {InstanceInfo(o, OriginH, f) : o \in {OriginA, OriginB}, f \in Sessions \cup {NoWin}}

InitRegistry ==
    InitWorld([EmptyWorld(TRUE) EXCEPT !.frames = [s \in Sessions |-> TRUE]])

Register(win, info) ==
    /\ win \in Windows
    /\ Commit(registerInstance(World, HostWin, win, info), Task("register", win, info))

Unregister(win) ==
    /\ win \in Windows
    /\ Commit(unregisterInstance(World, HostWin, win), Task("unregister", win, NoEvent))

NextRegistry ==
    \/ \E win \in {WinA, WinB}, info \in Infos : Register(win, info)
    \/ \E win \in {WinA, WinB} : Unregister(win)

SpecRegistry == InitRegistry /\ [][NextRegistry]_vars

\* C19: registerInstance(win, info) leaves info as the entry of win; the iframe of
\* the entry win had before, if it had one, is detached; the entries of the
\* other windows and the other iframes are as they were.
C19_RegisterEvicts ==
    [][last'.kind = "register"
         => LET win == last'.who
                old == reg[HostWin][win]
            IN /\ reg'[HostWin][win] = last'.e
               /\ \A other \in Windows \ {win} : reg'[HostWin][other] = reg[HostWin][other]
               /\ \A r \in Realms \ {HostWin} : reg'[r] = reg[r]
               /\ \A s \in Sessions :
                     frames'[s] = (frames[s] /\ ~(old.present /\ old.frame = s))]_vars

\* C19's case: the window's entry with iframe A was replaced by one with iframe B,
\* and iframe A is detached while iframe B is not.
C19_Witness ==
    /\ last.kind = "register"
    /\ last.who = WinA
    /\ reg[HostWin][WinA].frame = "B"
    /\ reg[HostWin][WinB] = NoInstance
    /\ ~frames["A"]
    /\ frames["B"]

----------------------------------------------------------------------------
(* SpecValidator: sanitizeMessage applied to every message event of a      *)
(* bounded set and every allowedOrigin (NoOrigin stands for false).        *)

\* event.data: absent, a scalar or an object; with or without a bridge field; the
\* six kinds and another; the protocol's type and another.
RawData ==
    {[BridgeMessage(b, t, None, None, 0, None, None, None, EmptyModel)
          EXCEPT !.shape = sh, !.hasBridge = hb] :
        b \in validTypes \cup {"invalid-type"}, t \in {MESSAGE_TYPE, "text/plain"},
        sh \in {"object", "null", "scalar"}, hb \in BOOLEAN}

RawEvents == {MessageEvent(HostWin, o, d) : o \in {OriginA, OriginB, OriginX}, d \in RawData}

AllowedOrigins == {NoOrigin, OriginA, OriginB}

InitValidator == InitWorld(EmptyWorld(FALSE))

Sanitize(e, allowedOrigin) ==
    /\ e \in RawEvents
    /\ Commit(World, Task(IF sanitizeMessage(e, allowedOrigin)
                          THEN "sanitize:true" ELSE "sanitize:false",
                          allowedOrigin, e))

NextValidator == \E e \in RawEvents, allowedOrigin \in AllowedOrigins : Sanitize(e, allowedOrigin)

SpecValidator == InitValidator /\ [][NextValidator]_vars

\* C20: sanitizeMessage accepts a message event exactly if it has data, the data
\* is an object with a bridge field, the bridge is one of the six kinds, the type
\* is MESSAGE_TYPE, and the event's origin is allowedOrigin when one is given;
\* without an allowedOrigin the origin does not matter.
C20_ValidatorAccepts ==
    last.kind \in {"sanitize:true", "sanitize:false"}
        => ((last.kind = "sanitize:true")
               <=> /\ last.e.data.shape = "object"
                   /\ last.e.data.hasBridge
                   /\ last.e.data.bridge \in {"handshake", "handshake-reply", "call",
                                              "emit", "reply", "request"}
                   /\ last.e.data.type = "application/x-iframe-postmessage-v1+json"
                   /\ (last.who # NoOrigin => last.e.origin = last.who))

\* C20's case: a well-formed message of an origin that is no allowedOrigin was
\* accepted because no allowedOrigin was given.
C20_Witness ==
    /\ last.kind = "sanitize:true"
    /\ last.who = NoOrigin
    /\ last.e.origin = OriginX
    /\ last.e.data.bridge = "handshake-reply"

----------------------------------------------------------------------------
(* The model merge of the child's handshake (SpecChild) *)

\* C21: the step that establishes the child leaves, under every key of the
\* handshake's model, the host's value, and under every other key the child's
\* previous value; no model entry is used in that step; and the model does not
\* change afterwards, so the promise's continuation and the replay of the queue
\* see the merged model.
C21_MergeBeforeUse ==
    /\ [][(cm.promise = "pending" /\ cm'.promise = "resolved")
             => /\ IsMessageTo(last', ChildWin)
                /\ last'.e.data.bridge = "handshake"
                /\ \A k \in Keys :
                      cm'.model[k] = IF last'.e.data.model[k] # None
                                     THEN last'.e.data.model[k]
                                     ELSE cm.model[k]
                /\ obs'.calls = obs.calls
                /\ obs'.replies = obs.replies]_vars
    /\ [][cm.promise = "resolved" => cm'.model = cm.model]_vars
    /\ [][last'.kind = "timer:replay" => cm.promise = "resolved"]_vars

\* C21's case: a request for "value" was queued, the handshake brought the host's
\* "value" and "greet", and the replay answered with the host's value; the child's
\* own function entry is still there.
C21_Witness ==
    /\ last.kind = "timer:replay"
    /\ cm.model["value"] = "host-value"
    /\ cm.model["greet"] = "hello"
    /\ cm.model["doWork"] = Fn
    /\ Len(obs.replies) > 0
    /\ obs.replies[1].value = "host-value"

----------------------------------------------------------------------------
(* The origin of the handshake-reply (SpecMulti) *)

\* C22: a host handshake is established only by a message whose origin is the
\* origin of the configured url, and that origin is the one the session keeps as
\* its child's origin.
C22_AckOriginChecked ==
    [][\A s \in Sessions :
          (hs[s].promise = "pending" /\ hs'[s].promise = "resolved")
             => /\ IsMessageTo(last', HostWin)
                /\ last'.e.origin = resolveOrigin(hs[s].url)
                /\ hs'[s].childOrigin = resolveOrigin(hs[s].url)
                /\ api'[s].childOrigin = resolveOrigin(hs[s].url)]_vars

----------------------------------------------------------------------------
(* SpecGate: the listening child and messages of its parent, some of them   *)
(* with a type that is not MESSAGE_TYPE.                                    *)

GateEvents ==
    {MessageEvent(HostWin, OriginH, d) :
        d \in {HandshakeMsg(GreetModel), Malformed(HandshakeMsg(GreetModel), "wrong-type"),
               CallMsg("doWork", "payload"), Malformed(CallMsg("doWork", "payload"), "wrong-type"),
               RequestMsg("value", 1), Malformed(RequestMsg("value", 1), "wrong-type")}}

NextGate ==
    \/ FireTimer(ChildRealm)
    \/ Advance(MaxTimeChild, TICK_CHILD_MS)
    \/ \E e \in GateEvents : EnvMessage(ChildWin, e, MaxEnvChild)

SpecGate == InitChild /\ [][NextGate]_vars

\* C23: the child is established, and a call or request is queued before the
\* handshake, only by a message that sanitizeMessage accepts (MESSAGE_TYPE and one
\* of the six kinds), whatever its origin.
C23_ChildValidates ==
    /\ [][(cm.promise = "pending" /\ cm'.promise = "resolved")
             => sanitizeMessage(last'.e, NoOrigin)]_vars
    /\ [][(IsMessageTo(last', ChildWin) /\ Len(cm'.messageQueue) > Len(cm.messageQueue))
             => sanitizeMessage(last'.e, NoOrigin)]_vars

----------------------------------------------------------------------------
(* SpecLate: two host sessions whose containers are inserted into the       *)
(* document after construction: frame.contentWindow is null when the        *)
(* constructor reads it, and this.child, the key of the session in          *)
(* activeInstances, is null for both.                                       *)

InitLate ==
    InitWorld(newBridgeParentIn(newBridgeParentIn(EmptyWorld(FALSE), "A", UrlA, GreetModel, FALSE),
                                "B", UrlB, EmptyModel, FALSE))

\* The container of session s's iframe is inserted into the document.
Attach(s) ==
    /\ hs[s].detached
    /\ Commit([World EXCEPT !.frames[s] = TRUE, !.hs[s].detached = FALSE],
              Task("attach", s, NoEvent))

LateEvents ==
    {MessageEvent(FrameWin(s), resolveOrigin(hs[s].url), HandshakeReplyMsg) : s \in Sessions}

NextLate ==
    \/ \E s \in Sessions : Attach(s)
    \/ \E s \in Sessions : FrameLoad(s, MaxLoadsE2E)
    \/ FireTimer(HostWin)
    \/ Advance(MaxTimeMulti, TICK_MS)
    \/ \E e \in LateEvents : CanSend(World, e.source) /\ EnvMessage(HostWin, e, MaxEnv)

SpecLate == InitLate /\ [][NextLate]_vars

\* C24: when a host handshake succeeds for a child window that has an entry in
\* activeInstances, the iframe of that entry is detached, and the window's entry
\* afterwards is the new session's.
C24_PriorSessionEvicted ==
    [][\A s \in Sessions :
          (/\ hs[s].promise = "pending" /\ hs'[s].promise = "resolved"
           /\ reg[HostWin][hs[s].child].present)
             => LET old == reg[HostWin][hs[s].child]
                IN /\ old.frame \in Sessions => ~frames'[old.frame]
                   /\ reg'[HostWin][hs[s].child].present
                   /\ reg'[HostWin][hs[s].child].frame = s]_vars

----------------------------------------------------------------------------
(* Before the child's handshake (SpecChild) *)

\* C25: as long as the child is not established, no model function was invoked
\* and no reply was sent; while it listens, a call or request of its parent
\* is queued and its dispatch stops at the capturing listener, whereas a
\* handshake of its parent is not queued, is not stopped and reaches shake,
\* which establishes the child.
C25_HandshakeFirst ==
    /\ [](cm.promise # "resolved" => obs.calls = <<>> /\ obs.replies = <<>>)
    /\ [][(/\ IsMessageTo(last', ChildWin)
           /\ cm.promise = "pending"
           /\ last'.e.source = ParentOf(ChildWin)
           /\ last'.e.data.bridge \in {"call", "request"})
              => /\ Cardinality(QueuedAs(cm'.messageQueue, last'.e.data)) = 1
                 /\ obs'.stopped = obs.stopped + 1
                 /\ cm'.promise = "pending"]_vars
    /\ [][(/\ IsMessageTo(last', ChildWin)
           /\ cm.promise = "pending"
           /\ last'.e.source = ParentOf(ChildWin)
           /\ last'.e.data.bridge = "handshake")
              => /\ cm'.messageQueue = cm.messageQueue
                 /\ obs'.stopped = obs.stopped
                 /\ cm'.promise = "resolved"]_vars

\* C25's case: the parent sent a call and a request and then the handshake: both
\* were stopped and are queued, the child is established, and nothing was invoked
\* or answered yet.
C25_Witness ==
    /\ IsMessageTo(last, ChildWin)
    /\ last.e.data.bridge = "handshake"
    /\ cm.promise = "resolved"
    /\ obs.stopped = 2
    /\ Len(cm.messageQueue) = 2
    /\ obs.calls = <<>>
    /\ obs.replies = <<>>

----------------------------------------------------------------------------
(* SpecAck: one host session and the handshake-reply of its child, which    *)
(* arrives at any time: early, after the last attempt, or after the         *)
(* handshake has failed (a message in flight when the iframe was removed).  *)

AckEvents == {MessageEvent(src, OriginA, HandshakeReplyMsg) : src \in {WinA, WinX}}

NextAck ==
    \/ FrameLoad("A", MaxLoads)
    \/ FireTimer(HostWin)
    \/ Advance(MaxTime, TICK_MS)
    \/ \E e \in AckEvents : EnvMessage(HostWin, e, MaxEnv)

SpecAck == InitHost /\ [][NextAck]_vars

\* C26: a validated handshake-reply of the session's own window that is dispatched
\* while the future is pending establishes the session, also after the last
\* attempt; a message dispatched after the future was rejected changes nothing of
\* the session: it stays rejected, nothing is registered and no API is created.
C26_LateAck ==
    /\ [][\A s \in Sessions :
            (/\ hs[s].promise = "pending"
             /\ hs[s].attempt >= MAX_HANDSHAKE_ATTEMPTS
             /\ IsMessageTo(last', HostWin)
             /\ sanitizeMessage(last'.e, NoOrigin)
             /\ last'.e.data.bridge = "handshake-reply"
             /\ last'.e.source = hs[s].child)
               => /\ hs'[s].promise = "resolved"
                  /\ api'[s].exists
                  /\ reg'[HostWin][hs[s].child].present]_vars
    /\ [][\A s \in Sessions :
            (Rejected(s) /\ IsMessageTo(last', HostWin))
               => /\ hs'[s] = hs[s]
                  /\ api'[s] = api[s]
                  /\ reg' = reg
                  /\ lis' = lis]_vars

\* C26's case: the attempts were used up and the timeout was armed, and before
\* it fired the child's handshake-reply established the session.
C26_Witness ==
    /\ IsMessageTo(last, HostWin)
    /\ last.e.source = WinA
    /\ hs["A"].promise = "resolved"
    /\ hs["A"].attempt = MAX_HANDSHAKE_ATTEMPTS
    /\ hs["A"].handshakeTimeout # 0
    /\ api["A"].exists

----------------------------------------------------------------------------
(* The offers of the host handshake (SpecHost) *)

\* A responseInterval of session s is armed for the time due.
IntervalArmed(tms, s, due) ==
    \E i \in 1..Len(tms) :
        tms[i].owner = s /\ tms[i].kind = "responseInterval" /\ tms[i].due = due

\* C27: a construction sends at most MAX_HANDSHAKE_ATTEMPTS handshakes, whatever
\* starts them ('load', however often, the fallback, the intervals); a start with
\* attempts left sends one handshake at once and arms an interval for
\* HANDSHAKE_INTERVAL_MS later; an interval sends at most one handshake when it is
\* due, and is then due again HANDSHAKE_INTERVAL_MS later unless it was cleared.
C27_OffersBounded ==
    /\ [](\A s \in Sessions : obs.offers[s] <= MAX_HANDSHAKE_ATTEMPTS)
    /\ [][\A s \in Sessions :
            (/\ last'.who = s
             /\ \/ last'.kind = "load"
                \/ last'.kind = "timer:fallback" /\ hs[s].responseInterval = 0 /\ ~hs[s].isResolved
             /\ hs[s].attempt < MAX_HANDSHAKE_ATTEMPTS
             /\ frames[s])
               => /\ obs'.offers[s] = obs.offers[s] + 1
                  /\ IntervalArmed(timers', s, now + HANDSHAKE_INTERVAL_MS)]_vars
    /\ [][\A s \in Sessions :
            (last'.kind = "timer:responseInterval" /\ last'.who = s)
               => LET t == Head(DueTimers(World, HostWin))
                  IN /\ t.due = now
                     /\ obs'.offers[s] \in {obs.offers[s], obs.offers[s] + 1}
                     /\ (obs'.offers[s] # obs.offers[s]
                            => hs[s].attempt < MAX_HANDSHAKE_ATTEMPTS)
                     /\ \/ IntervalArmed(timers', s, now + HANDSHAKE_INTERVAL_MS)
                        \/ \A i \in 1..Len(timers') : timers'[i].id # t.id]_vars

\* C27's case: 'load' fired twice, ten handshakes went out, and an interval that
\* fired after that sent nothing.
C27_Witness ==
    /\ last.kind = "timer:responseInterval"
    /\ hs["A"].loads = 2
    /\ obs.offers["A"] = MAX_HANDSHAKE_ATTEMPTS
    /\ hs["A"].handshakeTimeout # 0
    /\ hs["A"].promise = "pending"

----------------------------------------------------------------------------
(* The fallback start of the host handshake (SpecAck) *)

\* C28: the fallback fires FALLBACK_DELAY_MS after the construction. If 'load'
\* has not fired and the handshake is not settled, it sends the first handshake
\* and arms the interval; if 'load' has started the handshakes, or the handshake
\* is settled, it sends nothing, arms nothing and changes nothing.
C28_Fallback ==
    /\ [](\A s \in Sessions :
            (hs[s].promise # "none" /\ now < FALLBACK_DELAY_MS)
               => \E i \in 1..Len(timers) :
                     /\ timers[i].owner = s /\ timers[i].kind = "fallback"
                     /\ timers[i].due = FALLBACK_DELAY_MS)
    /\ [][\A s \in Sessions :
            (last'.kind = "timer:fallback" /\ last'.who = s)
               => /\ now = FALLBACK_DELAY_MS
                  /\ IF hs[s].loads = 0 /\ hs[s].promise = "pending"
                     THEN /\ obs'.offers[s] = 1
                          /\ hs'[s].attempt = 1
                          /\ IntervalArmed(timers', s, now + HANDSHAKE_INTERVAL_MS)
                     ELSE /\ hs'[s] = hs[s]
                          /\ obs'.offers[s] = obs.offers[s]
                          /\ inbox' = inbox
                          /\ Len(timers') = Len(timers) - 1]_vars

\* C28's case: 'load' never fired, and the fallback sent the first handshake.
C28_Witness ==
    /\ last.kind = "timer:fallback"
    /\ hs["A"].loads = 0
    /\ now = FALLBACK_DELAY_MS
    /\ obs.offers["A"] = 1
    /\ Len(inbox[WinA]) = 1

----------------------------------------------------------------------------
(* The handshake-reply of the child (SpecChild) *)

\* C29: the child sends at most one handshake-reply, however many handshakes of
\* its parent are dispatched; it sends it for a handshake of the parent
\* dispatched while it listens, to the source and the origin of that event, and
\* that origin is its parentOrigin from then on.
C29_OneAck ==
    /\ [](Len(obs.acks) <= 1)
    /\ [](capi.exists => /\ Len(obs.acks) = 1
                         /\ capi.parentOrigin = obs.acks[1].origin
                         /\ cm.parentOrigin = obs.acks[1].origin)
    /\ [][obs'.acks # obs.acks
             => /\ IsMessageTo(last', ChildWin)
                /\ cm.promise = "pending"
                /\ last'.e.data.bridge = "handshake"
                /\ last'.e.source = ParentOf(ChildWin)
                /\ obs'.acks = << [to |-> last'.e.source, origin |-> last'.e.origin] >>]_vars

\* C29's case: the established child saw another handshake of its parent, with
\* another origin, and sent nothing more.
C29_Witness ==
    /\ IsMessageTo(last, ChildWin)
    /\ last.e.data.bridge = "handshake"
    /\ last.e.source = ParentOf(ChildWin)
    /\ capi.exists
    /\ last.e.origin # capi.parentOrigin
    /\ Len(obs.acks) = 1
    /\ obs.env = 3

----------------------------------------------------------------------------
(* SpecIds: two established host sessions call get() in any order, and the  *)
(* replies of their children arrive in any order.                           *)

IdEvents ==
    {MessageEvent(FrameWin(s), api[s].childOrigin, ReplyMsg(uid, "v")) :
        s \in Sessions, uid \in 1..MaxGets}

GetId(s, property) ==
    /\ api[s].exists
    /\ midc < MaxGets
    /\ Commit(get(World, s, property), Task("get", s, NoEvent))

NextIds ==
    \/ \E s \in Sessions : GetId(s, "value")
    \/ \E e \in IdEvents : EnvMessage(HostWin, e, MaxEnv)

SpecIds == InitApi /\ [][NextIds]_vars

\* C30: every get() takes the id that follows the id of the get() before it, in
\* whichever session either was called, and sends its request with that id;
\* nothing else moves the counter; so no id is ever pending in two sessions, and
\* no id that was used is used again.
C30_IdsIncrease ==
    /\ [][\A s \in Sessions :
            (last'.kind = "get" /\ last'.who = s)
               => /\ midc' = midc + 1
                  /\ midc' \notin api["A"].gets \cup api["B"].gets
                  /\ api'[s].gets = api[s].gets \cup {midc'}
                  /\ inbox'[FrameWin(s)] = Append(inbox[FrameWin(s)],
                         MessageEvent(HostWin, OriginH, RequestMsg("value", midc')))]_vars
    /\ [][last'.kind # "get" => midc' = midc]_vars
    /\ [](api["A"].gets \cap api["B"].gets = {})
    /\ [](\A uid \in api["A"].gets \cup api["B"].gets : 1 <= uid /\ uid <= midc)

\* C30's case: gets were called in both sessions, one was answered, and the next get
\* took the next id, not the one that became free.
C30_Witness ==
    /\ last.kind = "get"
    /\ midc = 3
    /\ api["A"].gets # {}
    /\ api["B"].gets # {}
    /\ obs.env > 0
    /\ Len(obs.resolved["A"]) + Len(obs.resolved["B"]) = 1

----------------------------------------------------------------------------
(* SpecSweep: the registry of the host with entries whose iframe is         *)
(* attached, detached, null or cannot be probed, and the periodic sweep.    *)

SweepInfos == Infos \cup {InstanceInfo(OriginA, OriginH, BrokenFrame)}

\* The callback of the module's setInterval(cleanupOrphanedInstances, 30000).
Sweep ==
    Commit(cleanupOrphanedInstances(World, HostWin), Task("sweep", HostWin, reg[HostWin]))

NextSweep ==
    \/ \E win \in {WinA, WinB}, info \in SweepInfos : Register(win, info)
    \/ \E win \in {WinA, WinB} : Unregister(win)
    \/ Sweep

SpecSweep == InitRegistry /\ [][NextSweep]_vars

\* C31: a sweep removes every entry whose iframe is not connected or cannot be
\* probed, and leaves every other entry, and every iframe, as it was.
C31_SweepRemovesDetached ==
    [][last'.kind = "sweep"
         => /\ \A win \in DOMAIN reg[HostWin] :
                  LET old == reg[HostWin][win]
                  IN reg'[HostWin][win] =
                        IF /\ old.present
                           /\ \/ old.frame = BrokenFrame
                              \/ old.frame \in Sessions /\ ~frames[old.frame]
                        THEN NoInstance ELSE old
            /\ frames' = frames
            /\ \A r \in Realms \ {HostWin} : reg'[r] = reg[r]]_vars

\* C31's case: the sweep found an entry with a detached iframe and one with an
\* attached iframe; it removed the first and kept the second.
C31_Witness ==
    /\ last.kind = "sweep"
    /\ last.e[WinA].present /\ last.e[WinA].frame = "A" /\ ~frames["A"]
    /\ ~reg[HostWin][WinA].present
    /\ last.e[WinB].present /\ last.e[WinB].frame = "B" /\ frames["B"]
    /\ reg[HostWin][WinB] = last.e[WinB]

----------------------------------------------------------------------------
(* SpecSession: one host and its child from construction on: the handshake, *)
(* and then get(), call() and emit() in any order, every message waiting in *)
(* its inbox for as long as the channel likes.                              *)

InitSession ==
    InitWorld(newBridgeModel(newBridgeParent(EmptyWorld(FALSE), "A", UrlA, GreetModel),
                             ChildModelA))

NextSession ==
    \/ FrameLoad("A", MaxLoadsE2E)
    \/ FireTimer(HostWin)
    \/ FireTimer(ChildRealm)
    \/ Deliver(HostWin)
    \/ Deliver(ChildWin)
    \/ Advance(MaxTimeSession, HANDSHAKE_INTERVAL_MS)
    \/ Get("A", "value")
    \/ Call("A", "doWork", "payload")
    \/ Emit("ev", "payload")

SpecSession == InitSession /\ [][NextSession]_vars

\* C32: every message the host or the child has posted is an object with one
\* bridge kind of the six and the type MESSAGE_TYPE, and has a uid exactly if it
\* is a request or a reply.
C32_WireFormat ==
    \A win \in Windows : \A i \in 1..Len(inbox[win]) :
        LET m == inbox[win][i].data
        IN /\ m.shape = "object" /\ m.hasBridge
           /\ m.bridge \in validTypes
           /\ m.type = MESSAGE_TYPE
           /\ (m.uid # 0 <=> m.bridge \in {"request", "reply"})

\* C32's case: the host holds a reply to its first request and an event of the
\* child, not yet dispatched.
C32_Witness ==
    /\ \E i \in 1..Len(inbox[HostWin]) :
          inbox[HostWin][i].data.bridge = "reply" /\ inbox[HostWin][i].data.uid = 1
    /\ \E i \in 1..Len(inbox[HostWin]) : inbox[HostWin][i].data.bridge = "emit"

----------------------------------------------------------------------------
(* SpecSettle: one host and its child from construction on, with everything *)
(* that can settle a handshake: the handshakes and replies they exchange,   *)
(* replies, events and handshakes of other senders or at other times, the   *)
(* timeouts of both sides.                                                  *)

SettleEvents ==
    {MessageEvent(WinA, OriginA, d) : d \in {HandshakeReplyMsg, EmitMsg("ev", "payload")}}

NextSettle ==
    \/ FrameLoad("A", MaxLoadsE2E)
    \/ FireTimer(HostWin)
    \/ FireTimer(ChildRealm)
    \/ Deliver(HostWin)
    \/ Deliver(ChildWin)
    \/ Advance(MaxTimeChild, HANDSHAKE_INTERVAL_MS)
    \/ \E e \in SettleEvents : EnvMessage(HostWin, e, MaxEnv)

SpecSettle == InitSession /\ [][NextSettle]_vars

\* C33: each future is settled once: a settled host future and a settled child
\* future keep their outcome; isResolved is set exactly when the future is
\* settled; an established host keeps its API and its iframe, a rejected host has
\* no API and no iframe; an established child keeps its API, a timed out child has
\* none.
C33_SettledOnce ==
    /\ [][/\ hs["A"].promise # "pending" => hs'["A"].promise = hs["A"].promise
          /\ cm.promise # "pending" => cm'.promise = cm.promise]_vars
    /\ [](hs["A"].isResolved <=> hs["A"].promise # "pending")
    /\ [](cm.isResolved <=> cm.promise # "pending")
    /\ [](hs["A"].promise = "resolved" => api["A"].exists /\ frames["A"])
    /\ [](Rejected("A") => ~api["A"].exists /\ ~frames["A"])
    /\ [](cm.promise = "resolved" <=> capi.exists)
    /\ [](hs["A"].promise \in {"pending", "resolved", "Failed handshake",
                               "Handshake timeout after max attempts"})
    /\ [](cm.promise \in {"pending", "resolved", "Handshake timeout"})

\* C33's case: the host was established by its child's reply, and a message of the
\* child that is no handshake-reply, dispatched afterwards, did not fail it.
C33_Witness ==
    /\ IsMessageTo(last, HostWin)
    /\ last.e.data.bridge = "emit"
    /\ last.e.source = WinA
    /\ hs["A"].promise = "resolved"
    /\ cm.promise = "resolved"
    /\ hs["A"].attempt > 1

----------------------------------------------------------------------------
(* The intervals of the host handshake (SpecAck) *)

IntervalsOf(s) == {i \in 1..Len(timers) : timers[i].owner = s /\ timers[i].kind = "responseInterval"}

\* C34: a host handshake never has more than one interval scheduled; once it is
\* established it has none, and no handshake is sent any more, however often and
\* whenever 'load' fired.
C34_QuietOnceEstablished ==
    /\ [](\A s \in Sessions : Cardinality(IntervalsOf(s)) <= 1)
    /\ [](\A s \in Sessions : hs[s].promise = "resolved" => IntervalsOf(s) = {})
    /\ [][\A s \in Sessions :
            hs[s].promise = "resolved" => obs'.offers[s] = obs.offers[s]]_vars

----------------------------------------------------------------------------
(* Between the child's handshake and the replay (SpecChild) *)

\* C35: while messages queued before the handshake wait for their replay, a call
\* or request of the parent that is dispatched is not yet handed to the model:
\* nothing is invoked and nothing is answered before the queued messages are.
C35_NoOvertaking ==
    [][(/\ capi.exists
        /\ cm.messageQueue # <<>>
        /\ IsMessageTo(last', ChildWin)
        /\ last'.e.source = ParentOf(ChildWin)
        /\ last'.e.origin = capi.parentOrigin)
           => /\ obs'.calls = obs.calls
              /\ obs'.replies = obs.replies]_vars

----------------------------------------------------------------------------
(* SpecDedup: the listening child and two calls of its parent that name the *)
(* same function with different data.                                       *)

DedupEvents ==
    {MessageEvent(HostWin, OriginH, d) :
        d \in {HandshakeMsg(GreetModel), CallMsg("doWork", "first"), CallMsg("doWork", "second")}}

NextDedup ==
    \/ FireTimer(ChildRealm)
    \/ Advance(MaxTimeChild, TICK_CHILD_MS)
    \/ \E e \in DedupEvents : EnvMessage(ChildWin, e, MaxEnvChild)

SpecDedup == InitChild /\ [][NextDedup]_vars

\* C36: while the child listens, a call of the parent that names a function for
\* which a call is queued leaves the queue as it is, whatever its data; the
\* replay invokes each function with the data of the call queued for it, once,
\* so the data of the later call never reaches the model through the queue.
C36_DedupIgnoresPayload ==
    /\ [][(/\ IsMessageTo(last', ChildWin)
           /\ cm.promise = "pending"
           /\ last'.e.data.bridge = "call"
           /\ \E i \in 1..Len(cm.messageQueue) :
                 /\ cm.messageQueue[i].message.bridge = "call"
                 /\ cm.messageQueue[i].message.property = last'.e.data.property)
              => cm'.messageQueue = cm.messageQueue]_vars
    /\ [][last'.kind = "timer:replay"
             => /\ Len(NewCalls) = Len(cm.messageQueue)
                /\ \A k \in 1..Len(NewCalls) :
                      NewCalls[k] = <<cm.messageQueue[k].message.property,
                                      cm.messageQueue[k].message.data>>
                /\ \A j, k \in 1..Len(NewCalls) : NewCalls[j][1] = NewCalls[k][1] => j = k]_vars

\* C36's case: the call with "first" is queued, and the call with "second",
\* dispatched after it, was dropped as a duplicate.
C36_Witness ==
    /\ IsMessageTo(last, ChildWin)
    /\ last.e.data.bridge = "call"
    /\ last.e.data.data = "second"
    /\ cm.promise = "pending"
    /\ obs.dups = 1
    /\ Len(cm.messageQueue) = 1
    /\ cm.messageQueue[1].message.data = "first"

----------------------------------------------------------------------------
(* The origins of an established pair (SpecSession) *)

\* C37: when the host and its child are both established, the host's childOrigin
\* is the origin of the child's document and the child's parentOrigin is the
\* origin of the host's document; every request and call of the host and every
\* event of the child is addressed to that origin, so it is delivered, and every
\* reply of the child is addressed to the host's origin.
C37_OriginAgreement ==
    /\ [](BothEstablished
            => /\ api["A"].childOrigin = WinOrigin(World, WinA)
               /\ hs["A"].childOrigin = WinOrigin(World, WinA)
               /\ capi.parentOrigin = WinOrigin(World, HostWin)
               /\ cm.parentOrigin = WinOrigin(World, HostWin))
    /\ [](\A i \in 1..Len(obs.replies) :
             obs.replies[i].origin = WinOrigin(World, HostWin) /\ obs.replies[i].to = HostWin)
    /\ [][(BothEstablished /\ last'.kind \in {"get", "call"})
             => /\ Len(inbox'[WinA]) = Len(inbox[WinA]) + 1
                /\ inbox'[WinA][Len(inbox'[WinA])].origin = capi.parentOrigin]_vars
    /\ [][(BothEstablished /\ last'.kind = "emit")
             => /\ Len(inbox'[HostWin]) = Len(inbox[HostWin]) + 1
                /\ inbox'[HostWin][Len(inbox'[HostWin])].origin = api["A"].childOrigin]_vars

\* C37's case: both sides are established by their exchange, the host has asked
\* for a value and got the reply, and the child's event has reached the host's inbox.
C37_Witness ==
    /\ BothEstablished
    /\ last.kind = "emit"
    /\ Len(obs.replies) = 1
    /\ inbox[HostWin] # <<>>
    /\ inbox[HostWin][Len(inbox[HostWin])].data.bridge = "emit"

----------------------------------------------------------------------------
(* SpecDestroy: one host and its child from construction on; the host asks  *)
(* for values, listens for events and destroys its session while messages   *)
(* of the child are still on their way.                                     *)

NextDestroy ==
    \/ FrameLoad("A", MaxLoadsE2E)
    \/ FireTimer(HostWin)
    \/ FireTimer(ChildRealm)
    \/ Deliver(HostWin)
    \/ Deliver(ChildWin)
    \/ Advance(MaxTimeSession, HANDSHAKE_INTERVAL_MS)
    \/ Get("A", "value")
    \/ On("A", "ev")
    \/ Destroy("A")
    \/ Emit("ev", "payload")

SpecDestroy == InitSession /\ [][NextDestroy]_vars

\* C38: once destroy() ran on a host session, a message dispatched on the host
\* window resolves no get of the session, invokes none of its handlers and leaves
\* its API as it is; a second destroy() leaves the session, its iframe, the
\* registry and the window's listeners as they are.
C38_InertAfterDestroy ==
    /\ [][(api["A"].destroyed /\ IsMessageTo(last', HostWin))
             => /\ obs'.resolved["A"] = obs.resolved["A"]
                /\ obs'.invoked["A"] = obs.invoked["A"]
                /\ api'["A"] = api["A"]]_vars
    /\ [][(api["A"].destroyed /\ last'.kind = "destroy")
             => /\ api'["A"] = api["A"]
                /\ frames' = frames
                /\ reg' = reg
                /\ lis' = lis]_vars

====
